---------------------------- MODULE Spec2Model ----------------------------
(***************************************************************************)
(* A model of augment-to-copilot-metrics: the paginated Analytics API      *)
(* client (src/src/augment_metrics/analytics_client.py) and the metrics    *)
(* transformer (src/src/augment_metrics/transformer.py).                   *)
(*                                                                         *)
(* The program is single-threaded: one call is in progress at a time.  A   *)
(* call of a paginated fetch method is one step for its argument checks    *)
(* and one step per HTTP request of _paginate's loop; the server's answer  *)
(* to a request is the step's input.  fetch_dau_count and the transformer  *)
(* are one step each.                                                      *)
(*                                                                         *)
(* Encoding of Python values:                                              *)
(*   str            a sequence of one-character strings (dates), or a TLA+ *)
(*                  string (cursors, identities)                           *)
(*   None           NoneStr (dates) or None (cursors, identities)          *)
(*   dict           a function whose DOMAIN is the set of keys present     *)
(*                  (records, metrics), or a record with a sentinel for an *)
(*                  absent key (query parameters)                          *)
(*   Optional[int]  [given, n]                                             *)
(***************************************************************************)
EXTENDS Integers, Sequences, FiniteSets, TLC

VARIABLES
    page_size,       \* AnalyticsClient.page_size; 0 encodes None
    pc,              \* "idle" | "paginating" | "done"
    op,              \* the method called last
    args,            \* its arguments
    params_given,    \* the params mapping as the caller built it
    params_in,       \* the same mapping (the caller's object) as it is now
    request_params,  \* _paginate's local request_params
    cursor,          \* _paginate's local cursor
    page_num,        \* _paginate's local page_num
    endpoint,        \* _paginate's argument endpoint
    requests,        \* the HTTP requests issued by the call, in order
    responses,       \* the responses received by the call, in order
    results,         \* the items yielded so far (list(...) collects them)
    returned,        \* the call returned a value
    value,           \* the list a fetch method returned
    report,          \* the Report transform_user_metrics returned
    error,           \* the exception the call raised, "" if none
    cause,           \* the exception it wraps (raise ... from e), "" if none
    server_left,     \* pages the server still links to; Unbounded: no limit
    row,             \* the flat row transform_to_csv_row returned
    warnings,        \* the logger.warning calls of the call, in order
    user_activity_in,\* the caller's list of records as it is after the call
    prev_cursor,     \* the cursor the previous call's loop held when it ended
                     \* (kept under ReuseSpec only; not an attribute)
    \* HTTPClient (http.py) under a run of http_client.get calls
    max_retries,     \* HTTPClient.max_retries, the Retry strategy's total
    http_pc,         \* "idle" | "sending" | "between" | "done"
    gets,            \* the http_client.get calls of the run so far
    attempts,        \* the requests the current get has sent to the server
    retries_left,    \* what is left of Retry.total in the current get
    statuses,        \* the status codes the current get received, in order
    http_error,      \* the exception the current get raised, "" if none
    run_error,       \* the exception the run's caller raised, "" if none
    \* run_export (cli.py)
    export_pc,       \* "idle" | "done"
    export_args,     \* the parsed command line
    export_env,      \* the environment: whether AUGMENT_API_TOKEN is set
    export_calls,    \* the collaborators run_export called, in order
    exit_code,       \* what run_export returned; NoExit before it returns
    \* TokenAuth (token_auth.py)
    credentials_file,\* the file at credentials_path; NoFile if there is none
    auth_op,         \* the TokenAuth method called last, with its arguments
    auth_value,      \* what it returned
    auth_error,      \* the exception it raised, "" if none
    saved            \* what the last successful save_token stored, None if
                     \* none or if clear_credentials came after it (a record
                     \* of the past; not an attribute)

client_vars ==
    <<page_size, pc, op, args, params_given, params_in, request_params, cursor,
      page_num, endpoint, requests, responses, results, returned, value, report,
      error, cause, server_left, row, warnings, user_activity_in, prev_cursor>>

http_vars ==
    <<max_retries, http_pc, gets, attempts, retries_left, statuses, http_error,
      run_error>>

export_vars == <<export_pc, export_args, export_env, export_calls, exit_code>>

auth_vars == <<credentials_file, auth_op, auth_value, auth_error, saved>>

\* what the client and the transformer leave alone
other_vars == <<http_vars, export_vars, auth_vars>>

vars == <<client_vars, http_vars, export_vars, auth_vars>>

(***************************************************************************)
(* Bounds of the model.                                                    *)
(***************************************************************************)
MaxPages == 3
MaxRecords == 2
MaxDau == 3
MaxRetries == 2
MaxGets == 2

(***************************************************************************)
(* Python values.                                                          *)
(***************************************************************************)
None == "<None>"
NoneStr == <<"<None>">>
Absent == "<absent>"
AbsentStr == <<"<absent>">>
Unbounded == 0 - 1

\* bool(x) of an Optional[str] whose characters are kept
Truthy(s) == s # NoneStr /\ s # <<>>

\* bool(x) of a cursor value (None and "" are falsy)
TruthyCursor(c) == c # None /\ c # ""

(***************************************************************************)
(* datetime.strptime(s, "%Y-%m-%d"), by what it does: the format becomes a *)
(* regular expression, (\d\d\d\d)-(1[0-2]|0[1-9]|[1-9])-                   *)
(* (3[0-1]|[1-2]\d|0[1-9]|[1-9]| [1-9]), that must match the whole string, *)
(* and the fields must then name a day of the calendar.                    *)
(***************************************************************************)
Digits == {"0", "1", "2", "3", "4", "5", "6", "7", "8", "9"}
NonZeroDigits == Digits \ {"0"}

DigitVal(c) ==
    CASE c = "0" -> 0 [] c = "1" -> 1 [] c = "2" -> 2 [] c = "3" -> 3
      [] c = "4" -> 4 [] c = "5" -> 5 [] c = "6" -> 6 [] c = "7" -> 7
      [] c = "8" -> 8 [] c = "9" -> 9 [] OTHER -> 0

RECURSIVE NumVal(_)
NumVal(t) ==
    IF t = <<>> THEN 0
    ELSE 10 * NumVal(SubSeq(t, 1, Len(t) - 1)) + DigitVal(t[Len(t)])

YearToken(t) == Len(t) = 4 /\ \A i \in 1..4 : t[i] \in Digits

MonthToken(t) ==
    \/ Len(t) = 2 /\ t[1] = "1" /\ t[2] \in {"0", "1", "2"}
    \/ Len(t) = 2 /\ t[1] = "0" /\ t[2] \in NonZeroDigits
    \/ Len(t) = 1 /\ t[1] \in NonZeroDigits

DayToken(t) ==
    \/ Len(t) = 2 /\ t[1] = "3" /\ t[2] \in {"0", "1"}
    \/ Len(t) = 2 /\ t[1] \in {"1", "2"} /\ t[2] \in Digits
    \/ Len(t) = 2 /\ t[1] = "0" /\ t[2] \in NonZeroDigits
    \/ Len(t) = 1 /\ t[1] \in NonZeroDigits
    \/ Len(t) = 2 /\ t[1] = " " /\ t[2] \in NonZeroDigits

IsLeap(y) == y % 4 = 0 /\ (y % 100 # 0 \/ y % 400 = 0)

DaysInMonth(y, m) ==
    IF m = 2 THEN (IF IsLeap(y) THEN 29 ELSE 28)
    ELSE IF m \in {4, 6, 9, 11} THEN 30 ELSE 31

\* datetime's own check of the parsed fields (MINYEAR is 1)
CalendarDate(y, m, d) ==
    y >= 1 /\ m \in 1..12 /\ d >= 1 /\ d <= DaysInMonth(y, m)

\* TRUE iff strptime(s, "%Y-%m-%d") returns; FALSE iff it raises ValueError
StrptimeYmd(s) ==
    /\ s # NoneStr
    /\ Len(s) >= 8
    /\ YearToken(SubSeq(s, 1, 4))
    /\ s[5] = "-"
    /\ \E ml \in {1, 2} :
          /\ Len(s) >= 7 + ml
          /\ MonthToken(SubSeq(s, 6, 5 + ml))
          /\ s[6 + ml] = "-"
          /\ DayToken(SubSeq(s, 7 + ml, Len(s)))
          /\ CalendarDate(NumVal(SubSeq(s, 1, 4)),
                          NumVal(SubSeq(s, 6, 5 + ml)),
                          NumVal(SubSeq(s, 7 + ml, Len(s))))

\* AnalyticsClient._validate_date: returns date_str, or raises ValueError
ValidateDateOk(date_str) == StrptimeYmd(date_str)


(***************************************************************************)
(* Inputs: the date strings callers pass.                                  *)
(***************************************************************************)
DateGood == <<"2", "0", "2", "6", "-", "0", "1", "-", "1", "5">>
DateBadMonth == <<"2", "0", "2", "6", "-", "1", "3", "-", "4", "5">>
DateUnpadded == <<"2", "0", "2", "6", "-", "1", "-", "5">>
DateFeb30 == <<"2", "0", "2", "6", "-", "0", "2", "-", "3", "0">>
DateEmpty == <<>>

DateStrings == {DateGood, DateBadMonth, DateUnpadded, DateFeb30, DateEmpty}
OptDateStrings == DateStrings \cup {NoneStr}
OptRangeStrings == {NoneStr, DateGood, DateUnpadded, DateBadMonth}

\* AnalyticsClient.__init__: page_size is None (0) or a positive integer
PageSizes == {0, 50}

(***************************************************************************)
(* Query parameters: a dict with the keys the client uses; Absent/AbsentStr *)
(* (0 for limit) stands for a key that is not in the dict.                 *)
(***************************************************************************)
NoParams ==
    [date |-> AbsentStr, start_date |-> AbsentStr, end_date |-> AbsentStr,
     limit |-> 0, cursor |-> Absent]

NoArgs ==
    [date |-> NoneStr, start_date |-> NoneStr, end_date |-> NoneStr,
     user_activity |-> <<>>, dau_count |-> [given |-> FALSE, n |-> 0],
     user |-> [k \in {} |-> 0]]

NoError == [type |-> "", msg |-> ""]

NoReport ==
    [date |-> NoneStr, total_active_users |-> 0, total_engaged_users |-> 0,
     copilot_ide_code_completions |-> [total_engaged_users |-> 0],
     copilot_ide_chat |-> [total_engaged_users |-> 0],
     copilot_dotcom_chat |-> [total_engaged_users |-> 0],
     copilot_dotcom_pull_requests |-> [total_engaged_users |-> 0],
     breakdown |-> <<>>]

\* no flat row returned
NoRow == [k \in {} |-> 0]

UserActivityEndpoint == "/analytics/v0/user-activity"
DailyUsageEndpoint == "/analytics/v0/daily-usage"
DauCountEndpoint == "/analytics/v0/dau-count"
EditorLanguageEndpoint == "/analytics/v0/daily-user-activity-by-editor-language"
TestEndpoint == "/test-endpoint"

(***************************************************************************)
(* The server's answers as HTTPClient.get hands them to the client: the    *)
(* exception it raises (transport), or the decoded JSON value.  A field of *)
(* the JSON object is missing, a list/dict, or a value of another type.    *)
(***************************************************************************)
PageDatas == {<<>>, <<1>>, <<2, 1>>}
CursorValues == {Absent, None, "", "c1", "c2"}
TransportErrors == {"HTTPError", "AuthenticationError", "RateLimitError"}

MissingField == [tag |-> "missing", items |-> <<>>]
OtherField == [tag |-> "other", items |-> <<>>]
ListField(d) == [tag |-> "list", items |-> d]
MissingPagination == [tag |-> "missing", next_cursor |-> Absent]
OtherPagination == [tag |-> "other", next_cursor |-> Absent]
DictPagination(c) == [tag |-> "dict", next_cursor |-> c]

\* users stands for the list key the endpoint's own envelope has besides
\* data: users for user-activity, daily_usage for daily-usage, records for
\* the editor-language breakdown
Resp(t, isd, d, p, u) ==
    [transport |-> t, is_dict |-> isd, data |-> d, pagination |-> p, dau |-> u,
     users |-> MissingField]

\* the envelope of tests/test_api_contracts.py: no data key, the records
\* under the endpoint's own key, pagination {has_more: false,
\* next_cursor: null}
KeyedPage(d) ==
    [Resp("ok", TRUE, MissingField, DictPagination(None), MissingField)
        EXCEPT !.users = ListField(d)]

PageResponses ==
    {Resp(t, FALSE, MissingField, MissingPagination, MissingField) :
        t \in TransportErrors}
    \cup {Resp("ok", FALSE, MissingField, MissingPagination, MissingField)}
    \cup {Resp("ok", TRUE, OtherField, DictPagination(None), MissingField)}
    \cup {Resp("ok", TRUE, MissingField, p, MissingField) :
            p \in {MissingPagination, DictPagination(None), DictPagination("c1")}}
    \cup {Resp("ok", TRUE, ListField(d), p, MissingField) :
            d \in PageDatas,
            p \in {MissingPagination, OtherPagination}
                  \cup {DictPagination(c) : c \in CursorValues}}
    \cup {KeyedPage(<<1>>)}

DauResponses ==
    {Resp(t, FALSE, MissingField, MissingPagination, MissingField) :
        t \in TransportErrors}
    \cup {Resp("ok", FALSE, MissingField, MissingPagination, MissingField)}
    \cup {Resp("ok", TRUE, MissingField, p, u) :
            p \in {MissingPagination, DictPagination("c1")},
            u \in {MissingField, OtherField} \cup {ListField(d) : d \in PageDatas}}


(***************************************************************************)
(* AnalyticsClient._paginate, one operator per step of the loop body.      *)
(***************************************************************************)
\* request_params = params.copy(): the caller's dict is another object, so
\* what the loop writes to request_params does not reach it
CallerView(caller, local) == caller

\* if self.page_size is not None: request_params["limit"] = self.page_size
WithLimit(params, size) ==
    IF size # 0 THEN [params EXCEPT !.limit = size] ELSE params

\* a plausible slip: a cursor key the caller passed is left in place
RequestParamsKeepStale(rp, c) ==
    IF TruthyCursor(c) THEN [rp EXCEPT !.cursor = c] ELSE rp

\* if cursor: request_params["cursor"] = cursor
\* elif "cursor" in request_params: del request_params["cursor"]
RequestParamsFor(rp, c) ==
    IF TruthyCursor(c) THEN [rp EXCEPT !.cursor = c]
    ELSE [rp EXCEPT !.cursor = Absent]

\* data = response.get("data", [])
DataOf(resp) ==
    IF resp.data.tag = "missing" THEN ListField(<<>>) ELSE resp.data

\* pagination = response.get("pagination", {})
PaginationOf(resp) ==
    IF resp.pagination.tag = "missing" THEN DictPagination(Absent)
    ELSE resp.pagination

\* cursor = pagination.get("next_cursor")
NextCursorOf(pagination) ==
    IF pagination.next_cursor = Absent THEN None ELSE pagination.next_cursor

\* a plausible slip: "if cursor is None", which lets "" through
StopsOnNoneOnly(c) == c = None

\* if not cursor: break
StopsAfter(c) == ~TruthyCursor(c)

\* a plausible slip: each page replaces what was collected
CollectLastPageOnly(collected, items) == items

\* for item in data: yield item, into the list that list(...) builds
Collect(collected, items) == collected \o items

Raises(m, c, yielded) ==
    [kind |-> "raise", msg |-> m, cause |-> c, items |-> yielded, next |-> None]

\* a plausible slip: the except clause ends the run as if the pages were over
SwallowTransportError(resp) ==
    [kind |-> "break", msg |-> "", cause |-> "", items |-> <<>>, next |-> None]

\* except (HTTPError, AuthenticationError, RateLimitError) as e:
\*     raise PaginationError(...) from e
OnTransportError(resp) == Raises("Failed to fetch page", resp.transport, <<>>)

\* What one iteration does with the answer to its request: the items it
\* yields, and whether it raises PaginationError, breaks or goes on.
PageOutcome(resp) ==
    IF resp.transport # "ok"
    THEN OnTransportError(resp)
    ELSE IF ~resp.is_dict
    THEN Raises("Invalid response type", "", <<>>)
    ELSE IF DataOf(resp).tag # "list"
    THEN Raises("Invalid data type", "", <<>>)
    ELSE IF PaginationOf(resp).tag # "dict"
    THEN Raises("Invalid pagination type", "", DataOf(resp).items)
    ELSE [kind |-> IF StopsAfter(NextCursorOf(PaginationOf(resp)))
                   THEN "break" ELSE "continue",
          msg |-> "", cause |-> "",
          items |-> DataOf(resp).items,
          next |-> NextCursorOf(PaginationOf(resp))]

(***************************************************************************)
(* Calls.  A call starts when no other is in progress.                     *)
(***************************************************************************)
CanCall == pc = "idle"

\* the call raises in its argument checks: no request, no result
FailEarly(o, a, etype, emsg) ==
    /\ pc' = "done"
    /\ op' = o
    /\ args' = a
    /\ error' = [type |-> etype, msg |-> emsg]
    /\ cause' = ""
    /\ params_given' = NoParams
    /\ params_in' = NoParams
    /\ request_params' = NoParams
    /\ cursor' = None
    /\ page_num' = 0
    /\ endpoint' = ""
    /\ requests' = <<>>
    /\ responses' = <<>>
    /\ results' = <<>>
    /\ returned' = FALSE
    /\ value' = <<>>
    /\ report' = NoReport
    /\ row' = NoRow
    /\ warnings' = <<>>
    /\ user_activity_in' = <<>>
    /\ UNCHANGED other_vars
    /\ UNCHANGED <<page_size, server_left, prev_cursor>>

\* a plausible slip: the cursor is kept on the instance, and a run starts
\* from the one the previous run was left with
EnterPaginateResumes(o, a, ep, params) ==
    /\ pc' = "paginating"
    /\ op' = o
    /\ args' = a
    /\ error' = NoError
    /\ cause' = ""
    /\ params_given' = params
    /\ params_in' = CallerView(params, WithLimit(params, page_size))
    /\ request_params' = WithLimit(params, page_size)
    /\ cursor' = prev_cursor
    /\ page_num' = 0
    /\ endpoint' = ep
    /\ requests' = <<>>
    /\ responses' = <<>>
    /\ results' = <<>>
    /\ returned' = FALSE
    /\ value' = <<>>
    /\ report' = NoReport
    /\ row' = NoRow
    /\ warnings' = <<>>
    /\ user_activity_in' = <<>>
    /\ UNCHANGED other_vars
    /\ UNCHANGED <<page_size, server_left, prev_cursor>>

\* _paginate up to its loop (lines 120-131); list(...) then drives the loop
EnterPaginate(o, a, ep, params) ==
    /\ pc' = "paginating"
    /\ op' = o
    /\ args' = a
    /\ error' = NoError
    /\ cause' = ""
    /\ params_given' = params
    /\ params_in' = CallerView(params, WithLimit(params, page_size))
    /\ request_params' = WithLimit(params, page_size)
    /\ cursor' = None
    /\ page_num' = 0
    /\ endpoint' = ep
    /\ requests' = <<>>
    /\ responses' = <<>>
    /\ results' = <<>>
    /\ returned' = FALSE
    /\ value' = <<>>
    /\ report' = NoReport
    /\ row' = NoRow
    /\ warnings' = <<>>
    /\ user_activity_in' = <<>>
    /\ UNCHANGED other_vars
    /\ UNCHANGED <<page_size, server_left, prev_cursor>>

\* a plausible slip: the check for a lone end_date is left out
DateArgsErrorNoLoneEnd(date, start_date, end_date) ==
    IF Truthy(date) /\ (Truthy(start_date) \/ Truthy(end_date))
    THEN "Cannot specify both"
    ELSE IF Truthy(start_date) /\ ~Truthy(end_date)
    THEN "Both must be specified together"
    ELSE IF Truthy(date) /\ ~ValidateDateOk(date)
    THEN "Invalid date format"
    ELSE IF /\ ~Truthy(date) /\ Truthy(start_date) /\ Truthy(end_date)
            /\ (~ValidateDateOk(start_date) \/ ~ValidateDateOk(end_date))
    THEN "Invalid date format"
    ELSE ""

\* the argument checks fetch_user_activity and
\* fetch_editor_language_breakdown share, in the code's order
DateArgsError(date, start_date, end_date) ==
    IF Truthy(date) /\ (Truthy(start_date) \/ Truthy(end_date))
    THEN "Cannot specify both"
    ELSE IF \/ Truthy(start_date) /\ ~Truthy(end_date)
            \/ Truthy(end_date) /\ ~Truthy(start_date)
    THEN "Both must be specified together"
    ELSE IF Truthy(date) /\ ~ValidateDateOk(date)
    THEN "Invalid date format"
    ELSE IF /\ ~Truthy(date) /\ Truthy(start_date) /\ Truthy(end_date)
            /\ (~ValidateDateOk(start_date) \/ ~ValidateDateOk(end_date))
    THEN "Invalid date format"
    ELSE ""

\* params as the two methods build it
DateArgsParams(date, start_date, end_date) ==
    IF Truthy(date) THEN [NoParams EXCEPT !.date = date]
    ELSE IF Truthy(start_date) /\ Truthy(end_date)
    THEN [NoParams EXCEPT !.start_date = start_date, !.end_date = end_date]
    ELSE NoParams

\* the argument checks of fetch_daily_usage and fetch_dau_count
RangeArgsError(start_date, end_date) ==
    IF ~ValidateDateOk(start_date) \/ ~ValidateDateOk(end_date)
    THEN "Invalid date format"
    ELSE ""

RangeArgsParams(start_date, end_date) ==
    [NoParams EXCEPT !.start_date = start_date, !.end_date = end_date]

DateArgs(date, start_date, end_date) ==
    [NoArgs EXCEPT !.date = date, !.start_date = start_date,
                   !.end_date = end_date]

FetchUserActivity ==
    /\ CanCall
    /\ \E date \in OptDateStrings, start_date \in OptRangeStrings,
          end_date \in OptRangeStrings :
          IF DateArgsError(date, start_date, end_date) # ""
          THEN FailEarly("fetch_user_activity",
                         DateArgs(date, start_date, end_date), "ValueError",
                         DateArgsError(date, start_date, end_date))
          ELSE EnterPaginate("fetch_user_activity",
                             DateArgs(date, start_date, end_date),
                             UserActivityEndpoint,
                             DateArgsParams(date, start_date, end_date))

FetchEditorLanguageBreakdown ==
    /\ CanCall
    /\ \E date \in OptDateStrings, start_date \in OptRangeStrings,
          end_date \in OptRangeStrings :
          IF DateArgsError(date, start_date, end_date) # ""
          THEN FailEarly("fetch_editor_language_breakdown",
                         DateArgs(date, start_date, end_date), "ValueError",
                         DateArgsError(date, start_date, end_date))
          ELSE EnterPaginate("fetch_editor_language_breakdown",
                             DateArgs(date, start_date, end_date),
                             EditorLanguageEndpoint,
                             DateArgsParams(date, start_date, end_date))

FetchDailyUsage ==
    /\ CanCall
    /\ \E start_date \in DateStrings, end_date \in DateStrings :
          IF RangeArgsError(start_date, end_date) # ""
          THEN FailEarly("fetch_daily_usage",
                         DateArgs(NoneStr, start_date, end_date), "ValueError",
                         RangeArgsError(start_date, end_date))
          ELSE EnterPaginate("fetch_daily_usage",
                             DateArgs(NoneStr, start_date, end_date),
                             DailyUsageEndpoint,
                             RangeArgsParams(start_date, end_date))

\* _paginate called directly (as the tests do), with params of the caller's
\* own, which may hold a cursor key; params=None is the empty dict
PaginateParamInputs ==
    {NoParams, [NoParams EXCEPT !.cursor = "c9"],
     [NoParams EXCEPT !.date = DateGood, !.cursor = "c1"]}

Paginate ==
    /\ CanCall
    /\ \E params \in PaginateParamInputs :
          EnterPaginate("_paginate", NoArgs, TestEndpoint, params)

\* a plausible slip: what was collected before the raise is handed over
DeliveredPartial(out, collected) == collected

\* list(self._paginate(...)): the list when the generator is exhausted;
\* when it raises, the exception passes through and nothing is returned
Delivered(out, collected) == IF out.kind = "break" THEN collected ELSE <<>>

\* One iteration of _paginate's while loop: the request, the server's
\* answer, the yields, and the raise, break or next cursor.  On break
\* list(...) is complete and the fetch method returns it; on a raise the
\* list under construction is dropped with the frame.
PaginateStep ==
    /\ pc = "paginating"
    /\ page_num < MaxPages
    /\ \E resp \in PageResponses :
          LET rp == RequestParamsFor(request_params, cursor)
              out == PageOutcome(resp)
          IN  /\ page_num' = page_num + 1
              /\ request_params' = rp
              /\ params_in' = CallerView(params_in, rp)
              /\ requests' = Append(requests, [endpoint |-> endpoint, params |-> rp])
              /\ responses' = Append(responses, resp)
              /\ results' = Collect(results, out.items)
              /\ cursor' = IF out.kind = "raise" THEN cursor ELSE out.next
              /\ pc' = IF out.kind = "continue" THEN "paginating" ELSE "done"
              /\ error' = IF out.kind = "raise"
                          THEN [type |-> "PaginationError", msg |-> out.msg]
                          ELSE NoError
              /\ cause' = out.cause
              /\ returned' = (out.kind = "break")
              /\ value' = Delivered(out, Collect(results, out.items))
              /\ UNCHANGED other_vars
              /\ UNCHANGED <<page_size, op, args, params_given, endpoint,
                             report, server_left,
                             row, warnings, user_activity_in, prev_cursor>>

\* a plausible slip: the list is read from "data", as for the other endpoints
DauOutcomeFromData(resp) ==
    IF resp.transport # "ok"
    THEN Raises("Failed to fetch DAU count", resp.transport, <<>>)
    ELSE IF ~resp.is_dict
    THEN Raises("Invalid response type", "", <<>>)
    ELSE IF resp.data.tag = "other"
    THEN Raises("Invalid daily_active_user_counts type", "", <<>>)
    ELSE [kind |-> "break", msg |-> "", cause |-> "",
          items |-> IF resp.data.tag = "missing" THEN <<>> ELSE resp.data.items,
          next |-> None]

\* What fetch_dau_count does with the answer to its one request.
DauOutcome(resp) ==
    IF resp.transport # "ok"
    THEN Raises("Failed to fetch DAU count", resp.transport, <<>>)
    ELSE IF ~resp.is_dict
    THEN Raises("Invalid response type", "", <<>>)
    ELSE IF resp.dau.tag = "other"
    THEN Raises("Invalid daily_active_user_counts type", "", <<>>)
    ELSE [kind |-> "break", msg |-> "", cause |-> "",
          items |-> IF resp.dau.tag = "missing" THEN <<>> ELSE resp.dau.items,
          next |-> None]

\* the requests fetch_dau_count issues for one call
DauRequests(params) == <<[endpoint |-> DauCountEndpoint, params |-> params]>>

FetchDauCount ==
    /\ CanCall
    /\ \E start_date \in DateStrings, end_date \in DateStrings :
          IF RangeArgsError(start_date, end_date) # ""
          THEN FailEarly("fetch_dau_count",
                         DateArgs(NoneStr, start_date, end_date), "ValueError",
                         RangeArgsError(start_date, end_date))
          ELSE \E resp \in DauResponses :
                 LET out == DauOutcome(resp)
                     params == RangeArgsParams(start_date, end_date)
                 IN  /\ pc' = "done"
                     /\ op' = "fetch_dau_count"
                     /\ args' = DateArgs(NoneStr, start_date, end_date)
                     /\ params_given' = NoParams
                     /\ params_in' = NoParams
                     /\ request_params' = NoParams
                     /\ cursor' = None
                     /\ page_num' = 0
                     /\ endpoint' = ""
                     /\ requests' = DauRequests(params)
                     /\ responses' = <<resp>>
                     /\ results' = <<>>
                     /\ error' = IF out.kind = "raise"
                                 THEN [type |-> "AnalyticsAPIError", msg |-> out.msg]
                                 ELSE NoError
                     /\ cause' = out.cause
                     /\ returned' = (out.kind = "break")
                     /\ value' = out.items
                     /\ report' = NoReport
                     /\ row' = NoRow
                     /\ warnings' = <<>>
                     /\ user_activity_in' = <<>>
                     /\ UNCHANGED other_vars
                     /\ UNCHANGED <<page_size, server_left, prev_cursor>>


(***************************************************************************)
(* MetricsTransformer.                                                     *)
(***************************************************************************)
EmptyDict == [k \in {} |-> 0]

\* d.get(k, default)
Get(d, k, default) == IF k \in DOMAIN d THEN d[k] ELSE default

\* bool(x) of an identity value (None and "" are falsy)
TruthyId(x) == x # None /\ x # ""

\* x or y
Or(x, y) == IF TruthyId(x) THEN x ELSE y

\* a plausible slip: the two CLI channels are left out of the sum
AgentInteractionsNoCli(metrics) ==
    Get(metrics, "remote_agent_messages", 0)
    + Get(metrics, "ide_agent_messages", 0)

\* agent_interactions (lines 131-136)
AgentInteractions(metrics) ==
    Get(metrics, "remote_agent_messages", 0)
    + Get(metrics, "ide_agent_messages", 0)
    + Get(metrics, "cli_agent_interactive_messages", 0)
    + Get(metrics, "cli_agent_non_interactive_messages", 0)

\* agent_loc (lines 139-144)
AgentLoc(metrics) ==
    Get(metrics, "remote_agent_lines_of_code", 0)
    + Get(metrics, "ide_agent_lines_of_code", 0)
    + Get(metrics, "cli_agent_interactive_lines_of_code", 0)
    + Get(metrics, "cli_agent_non_interactive_lines_of_code", 0)

\* a plausible slip: a record without active_days counts as one active day
TransformUserRecordDaysDefaultOne(user) ==
    LET metrics == Get(user, "metrics", EmptyDict)
    IN  [user_email |-> Or(Get(user, "user_email", None),
                           Get(user, "service_account_name", None)),
         active_days |-> Get(user, "active_days", 1),
         code_generation_activity_count |-> Get(metrics, "completions_count", 0),
         code_acceptance_activity_count |-> Get(metrics, "completions_accepted", 0),
         loc_added_sum |-> Get(metrics, "total_modified_lines_of_code", 0),
         chat_panel |->
            [user_initiated_interaction_count |-> Get(metrics, "chat_messages", 0)],
         agent_edit |->
            [user_initiated_interaction_count |-> AgentInteractions(metrics),
             loc_added_sum |-> AgentLoc(metrics)],
         code_completions |->
            [loc_added_sum |-> Get(metrics, "completions_lines_of_code", 0)]]

\* a plausible slip: the top-level loc_added_sum is taken from the agent sum
TransformUserRecordLocFromAgents(user) ==
    LET metrics == Get(user, "metrics", EmptyDict)
    IN  [user_email |-> Or(Get(user, "user_email", None),
                           Get(user, "service_account_name", None)),
         active_days |-> Get(user, "active_days", 0),
         code_generation_activity_count |-> Get(metrics, "completions_count", 0),
         code_acceptance_activity_count |-> Get(metrics, "completions_accepted", 0),
         loc_added_sum |-> AgentLoc(metrics),
         chat_panel |->
            [user_initiated_interaction_count |-> Get(metrics, "chat_messages", 0)],
         agent_edit |->
            [user_initiated_interaction_count |-> AgentInteractions(metrics),
             loc_added_sum |-> AgentLoc(metrics)],
         code_completions |->
            [loc_added_sum |-> Get(metrics, "completions_lines_of_code", 0)]]

\* a plausible slip: acceptances are clamped down to the generations
TransformUserRecordClampAcceptance(user) ==
    LET metrics == Get(user, "metrics", EmptyDict)
    IN  [user_email |-> Or(Get(user, "user_email", None),
                           Get(user, "service_account_name", None)),
         active_days |-> Get(user, "active_days", 0),
         code_generation_activity_count |-> Get(metrics, "completions_count", 0),
         code_acceptance_activity_count |-> IF Get(metrics, "completions_accepted", 0)
                  > Get(metrics, "completions_count", 0)
            THEN Get(metrics, "completions_count", 0)
            ELSE Get(metrics, "completions_accepted", 0),
         loc_added_sum |-> Get(metrics, "total_modified_lines_of_code", 0),
         chat_panel |->
            [user_initiated_interaction_count |-> Get(metrics, "chat_messages", 0)],
         agent_edit |->
            [user_initiated_interaction_count |-> AgentInteractions(metrics),
             loc_added_sum |-> AgentLoc(metrics)],
         code_completions |->
            [loc_added_sum |-> Get(metrics, "completions_lines_of_code", 0)]]

\* _transform_user_record; the warning it may log changes nothing
TransformUserRecord(user) ==
    LET metrics == Get(user, "metrics", EmptyDict)
    IN  [user_email |-> Or(Get(user, "user_email", None),
                           Get(user, "service_account_name", None)),
         active_days |-> Get(user, "active_days", 0),
         code_generation_activity_count |-> Get(metrics, "completions_count", 0),
         code_acceptance_activity_count |-> Get(metrics, "completions_accepted", 0),
         loc_added_sum |-> Get(metrics, "total_modified_lines_of_code", 0),
         chat_panel |->
            [user_initiated_interaction_count |-> Get(metrics, "chat_messages", 0)],
         agent_edit |->
            [user_initiated_interaction_count |-> AgentInteractions(metrics),
             loc_added_sum |-> AgentLoc(metrics)],
         code_completions |->
            [loc_added_sum |-> Get(metrics, "completions_lines_of_code", 0)]]

\* a plausible slip: a user with active days counts as engaged
IsUserEngagedOrActive(user_metrics) ==
    \/ user_metrics.code_generation_activity_count > 0
    \/ user_metrics.chat_panel.user_initiated_interaction_count > 0
    \/ user_metrics.agent_edit.user_initiated_interaction_count > 0
    \/ user_metrics.active_days > 0

\* a plausible slip: the chat panel is left out of the engagement test
IsUserEngagedNoChat(user_metrics) ==
    \/ user_metrics.code_generation_activity_count > 0
    \/ user_metrics.agent_edit.user_initiated_interaction_count > 0

\* _is_user_engaged
IsUserEngaged(user_metrics) ==
    \/ user_metrics.code_generation_activity_count > 0
    \/ user_metrics.chat_panel.user_initiated_interaction_count > 0
    \/ user_metrics.agent_edit.user_initiated_interaction_count > 0

\* a plausible slip: each record is put in front of the breakdown
RECURSIVE TransformLoopPrepend(_, _, _)
TransformLoopPrepend(user_activity, i, acc) ==
    IF i > Len(user_activity) THEN acc
    ELSE LET user_metrics == TransformUserRecord(user_activity[i])
         IN  TransformLoopPrepend(user_activity, i + 1,
               [breakdown |-> <<user_metrics>> \o acc.breakdown,
                total_engaged_users |->
                    acc.total_engaged_users
                    + (IF IsUserEngaged(user_metrics) THEN 1 ELSE 0),
                code_completions_engaged |->
                    acc.code_completions_engaged
                    + (IF user_metrics.code_generation_activity_count > 0
                       THEN 1 ELSE 0),
                chat_engaged |->
                    acc.chat_engaged
                    + (IF user_metrics.chat_panel.user_initiated_interaction_count > 0
                       THEN 1 ELSE 0)])

\* the for loop of transform_user_metrics (lines 64-81), from record i on
RECURSIVE TransformLoop(_, _, _)
TransformLoop(user_activity, i, acc) ==
    IF i > Len(user_activity) THEN acc
    ELSE LET user_metrics == TransformUserRecord(user_activity[i])
         IN  TransformLoop(user_activity, i + 1,
               [breakdown |-> Append(acc.breakdown, user_metrics),
                total_engaged_users |->
                    acc.total_engaged_users
                    + (IF IsUserEngaged(user_metrics) THEN 1 ELSE 0),
                code_completions_engaged |->
                    acc.code_completions_engaged
                    + (IF user_metrics.code_generation_activity_count > 0
                       THEN 1 ELSE 0),
                chat_engaged |->
                    acc.chat_engaged
                    + (IF user_metrics.chat_panel.user_initiated_interaction_count > 0
                       THEN 1 ELSE 0)])

\* a plausible slip: "if dau_count", which takes an override of 0 for none
ActiveUsersBaseTruthy(dau_count, breakdown) ==
    IF dau_count.given /\ dau_count.n # 0 THEN dau_count.n ELSE Len(breakdown)

\* a plausible slip: the override is not looked at
ActiveUsersBaseLen(dau_count, breakdown) == Len(breakdown)

\* total_active_users = dau_count if dau_count is not None else len(breakdown)
ActiveUsersBase(dau_count, breakdown) ==
    IF dau_count.given THEN dau_count.n ELSE Len(breakdown)

\* a plausible slip: the warning is logged and the value left as it is
ClampActiveWarnOnly(total_active_users, total_engaged_users) == total_active_users

\* if total_active_users < total_engaged_users:
\*     total_active_users = total_engaged_users
ClampActive(total_active_users, total_engaged_users) ==
    IF total_active_users < total_engaged_users THEN total_engaged_users
    ELSE total_active_users

\* a plausible slip: the chat count is filled from the overall engaged count
BuildReportChatFromEngaged(user_activity, date_str, dau_count) ==
    LET acc == TransformLoop(user_activity, 1,
                   [breakdown |-> <<>>, total_engaged_users |-> 0,
                    code_completions_engaged |-> 0, chat_engaged |-> 0])
    IN  [date |-> date_str,
         total_active_users |->
            ClampActive(ActiveUsersBase(dau_count, acc.breakdown),
                        acc.total_engaged_users),
         total_engaged_users |-> acc.total_engaged_users,
         copilot_ide_code_completions |->
            [total_engaged_users |-> acc.code_completions_engaged],
         copilot_ide_chat |-> [total_engaged_users |-> acc.total_engaged_users],
         copilot_dotcom_chat |-> [total_engaged_users |-> 0],
         copilot_dotcom_pull_requests |-> [total_engaged_users |-> 0],
         breakdown |-> acc.breakdown]

\* the Report transform_user_metrics returns for a date strptime accepts
BuildReport(user_activity, date_str, dau_count) ==
    LET acc == TransformLoop(user_activity, 1,
                   [breakdown |-> <<>>, total_engaged_users |-> 0,
                    code_completions_engaged |-> 0, chat_engaged |-> 0])
    IN  [date |-> date_str,
         total_active_users |->
            ClampActive(ActiveUsersBase(dau_count, acc.breakdown),
                        acc.total_engaged_users),
         total_engaged_users |-> acc.total_engaged_users,
         copilot_ide_code_completions |->
            [total_engaged_users |-> acc.code_completions_engaged],
         copilot_ide_chat |-> [total_engaged_users |-> acc.chat_engaged],
         copilot_dotcom_chat |-> [total_engaged_users |-> 0],
         copilot_dotcom_pull_requests |-> [total_engaged_users |-> 0],
         breakdown |-> acc.breakdown]

\* the warning _transform_user_record logs (lines 166-171), if it logs one
AcceptanceWarning(user_record) ==
    IF user_record.code_acceptance_activity_count
          > user_record.code_generation_activity_count
    THEN <<"code_acceptance_activity_count > code_generation_activity_count">>
    ELSE <<>>

\* the warnings of the for loop, record by record
RECURSIVE RecordWarnings(_, _)
RecordWarnings(user_activity, i) ==
    IF i > Len(user_activity) THEN <<>>
    ELSE AcceptanceWarning(TransformUserRecord(user_activity[i]))
         \o RecordWarnings(user_activity, i + 1)

\* the warning of lines 87-91, if it is logged
ClampWarning(total_active_users, total_engaged_users) ==
    IF total_active_users < total_engaged_users
    THEN <<"total_active_users < total_engaged_users">>
    ELSE <<>>

\* every logger.warning call of transform_user_metrics, in order
ReportWarnings(user_activity, dau_count) ==
    LET acc == TransformLoop(user_activity, 1,
                   [breakdown |-> <<>>, total_engaged_users |-> 0,
                    code_completions_engaged |-> 0, chat_engaged |-> 0])
    IN  RecordWarnings(user_activity, 1)
        \o ClampWarning(ActiveUsersBase(dau_count, acc.breakdown),
                        acc.total_engaged_users)

\* a plausible slip: the non-interactive CLI channel is left out of the sum
RowAgentInteractionsNoBatch(metrics) ==
    Get(metrics, "remote_agent_messages", 0)
    + Get(metrics, "ide_agent_messages", 0)
    + Get(metrics, "cli_agent_interactive_messages", 0)

\* agent_interactions of transform_to_csv_row (lines 204-209)
RowAgentInteractions(metrics) ==
    Get(metrics, "remote_agent_messages", 0)
    + Get(metrics, "ide_agent_messages", 0)
    + Get(metrics, "cli_agent_interactive_messages", 0)
    + Get(metrics, "cli_agent_non_interactive_messages", 0)

\* cli_agent_loc (lines 211-214)
CliAgentLoc(metrics) ==
    Get(metrics, "cli_agent_interactive_lines_of_code", 0)
    + Get(metrics, "cli_agent_non_interactive_lines_of_code", 0)

\* transform_to_csv_row
TransformToCsvRowOf(user) ==
    LET metrics == Get(user, "metrics", EmptyDict)
    IN  "User" :> Or(Get(user, "user_email", None),
                     Get(user, "service_account_name", ""))
        @@ "Active Days" :> Get(user, "active_days", 0)
        @@ "Completions" :> Get(metrics, "completions_count", 0)
        @@ "Accepted Completions" :> Get(metrics, "completions_accepted", 0)
        @@ "Chat Messages" :> Get(metrics, "chat_messages", 0)
        @@ "Remote Agent Messages" :> Get(metrics, "remote_agent_messages", 0)
        @@ "IDE Agent Messages" :> Get(metrics, "ide_agent_messages", 0)
        @@ "CLI Interactive Messages" :>
              Get(metrics, "cli_agent_interactive_messages", 0)
        @@ "CLI Non-Interactive Messages" :>
              Get(metrics, "cli_agent_non_interactive_messages", 0)
        @@ "Total Tool Calls" :> Get(metrics, "total_tool_calls", 0)
        @@ "Total Modified LOC" :> Get(metrics, "total_modified_lines_of_code", 0)
        @@ "Completion LOC" :> Get(metrics, "completions_lines_of_code", 0)
        @@ "Remote Agent LOC" :> Get(metrics, "remote_agent_lines_of_code", 0)
        @@ "IDE Agent LOC" :> Get(metrics, "ide_agent_lines_of_code", 0)
        @@ "CLI Agent LOC" :> CliAgentLoc(metrics)
        @@ "Copilot Code Generation" :> Get(metrics, "completions_count", 0)
        @@ "Copilot Code Acceptance" :> Get(metrics, "completions_accepted", 0)
        @@ "Copilot Chat Interactions" :> Get(metrics, "chat_messages", 0)
        @@ "Copilot Agent Interactions" :> RowAgentInteractions(metrics)

(***************************************************************************)
(* Inputs of the transformer: raw user records as the API returns them.    *)
(***************************************************************************)
RawFull ==
    [user_email |-> "alice@example.com", active_days |-> 11,
     metrics |->
        [completions_count |-> 12, completions_accepted |-> 2,
         remote_agent_messages |-> 100, ide_agent_messages |-> 120,
         cli_agent_interactive_messages |-> 20,
         cli_agent_non_interactive_messages |-> 4,
         remote_agent_lines_of_code |-> 15000,
         ide_agent_lines_of_code |-> 12000,
         cli_agent_interactive_lines_of_code |-> 1500,
         cli_agent_non_interactive_lines_of_code |-> 440,
         total_modified_lines_of_code |-> 28942,
         completions_lines_of_code |-> 2, chat_messages |-> 3,
         total_tool_calls |-> 7]]

RawChatOnly ==
    [user_email |-> "bob@example.com", active_days |-> 3,
     metrics |-> [chat_messages |-> 3]]

RawAgentOnly ==
    [service_account_name |-> "ci-bot",
     metrics |-> [cli_agent_non_interactive_messages |-> 4,
                  cli_agent_non_interactive_lines_of_code |-> 440]]

RawIdle ==
    [user_email |-> "idle@example.com", active_days |-> 2,
     metrics |-> [total_modified_lines_of_code |-> 10, total_tool_calls |-> 5,
                  ide_agent_lines_of_code |-> 6]]

RawOverAccept ==
    [user_email |-> "", service_account_name |-> "svc", active_days |-> 1,
     metrics |-> [completions_count |-> 1, completions_accepted |-> 2]]

RawBare == EmptyDict

RawRecords == {RawFull, RawChatOnly, RawAgentOnly, RawIdle, RawOverAccept, RawBare}

RecordLists == UNION {[1..n -> RawRecords] : n \in 0..MaxRecords}

\* records for transform_to_csv_row: the same, and two more identities
RawBothIdentities ==
    [user_email |-> "carol@example.com", service_account_name |-> "svc",
     active_days |-> 4, metrics |-> [chat_messages |-> 1]]

RawEmptyEmail == [user_email |-> "", active_days |-> 1]

RowInputs == RawRecords \cup {RawBothIdentities, RawEmptyEmail}

DauInputs ==
    {[given |-> FALSE, n |-> 0]} \cup {[given |-> TRUE, n |-> k] : k \in 0..MaxDau}

TransformUserMetrics ==
    /\ CanCall
    /\ \E user_activity \in RecordLists, date_str \in DateStrings,
          dau_count \in DauInputs :
          LET a == [NoArgs EXCEPT !.date = date_str,
                                  !.user_activity = user_activity,
                                  !.dau_count = dau_count]
          IN  IF ~StrptimeYmd(date_str)
              THEN FailEarly("transform_user_metrics", a,
                             "TransformationError", "Invalid date format")
              ELSE /\ pc' = "done"
                   /\ op' = "transform_user_metrics"
                   /\ args' = a
                   /\ error' = NoError
                   /\ cause' = ""
                   /\ returned' = TRUE
                   /\ report' = BuildReport(user_activity, date_str, dau_count)
                   /\ row' = NoRow
                   /\ warnings' = ReportWarnings(user_activity, dau_count)
                   /\ user_activity_in' = user_activity
                   /\ value' = <<>>
                   /\ params_given' = NoParams
                   /\ params_in' = NoParams
                   /\ request_params' = NoParams
                   /\ cursor' = None
                   /\ page_num' = 0
                   /\ endpoint' = ""
                   /\ requests' = <<>>
                   /\ responses' = <<>>
                   /\ results' = <<>>
                   /\ UNCHANGED other_vars
                   /\ UNCHANGED <<page_size, server_left, prev_cursor>>

\* transform_to_csv_row has no date argument and no check that can fail
TransformToCsvRow ==
    /\ CanCall
    /\ \E user \in RowInputs :
          /\ pc' = "done"
          /\ op' = "transform_to_csv_row"
          /\ args' = [NoArgs EXCEPT !.user = user]
          /\ error' = NoError
          /\ cause' = ""
          /\ returned' = TRUE
          /\ report' = NoReport
          /\ row' = TransformToCsvRowOf(user)
          /\ warnings' = <<>>
          /\ user_activity_in' = <<>>
          /\ value' = <<>>
          /\ params_given' = NoParams
          /\ params_in' = NoParams
          /\ request_params' = NoParams
          /\ cursor' = None
          /\ page_num' = 0
          /\ endpoint' = ""
          /\ requests' = <<>>
          /\ responses' = <<>>
          /\ results' = <<>>
          /\ UNCHANGED other_vars
          /\ UNCHANGED <<page_size, server_left, prev_cursor>>

\* The caller takes the outcome of the call that ended.  The call's frame is
\* gone with its locals; neither class writes an attribute of its instance
\* after __init__, so page_size is all that is left.
Finish ==
    /\ pc = "done"
    /\ pc' = "idle"
    /\ op' = ""
    /\ args' = NoArgs
    /\ error' = NoError
    /\ cause' = ""
    /\ returned' = FALSE
    /\ report' = NoReport
    /\ row' = NoRow
    /\ warnings' = <<>>
    /\ user_activity_in' = <<>>
    /\ value' = <<>>
    /\ params_given' = NoParams
    /\ params_in' = NoParams
    /\ request_params' = NoParams
    /\ cursor' = None
    /\ page_num' = 0
    /\ endpoint' = ""
    /\ requests' = <<>>
    /\ responses' = <<>>
    /\ results' = <<>>
    /\ UNCHANGED other_vars
    /\ UNCHANGED <<page_size, server_left, prev_cursor>>

(***************************************************************************)
(* HTTPClient (http.py).  A run is what the pagination loop does with the  *)
(* HTTP layer: one http_client.get per page, until a page is the last or a *)
(* get raises.  A get is session.get under the adapter's Retry strategy    *)
(* (urllib3): one step per request sent to the server, whose status code   *)
(* is the step's input.                                                    *)
(***************************************************************************)
StatusCodes == {200, 401, 404, 429, 500, 501, 502, 503, 504}

\* a plausible slip: 401 is listed with the statuses to retry
StatusForcelistWith401 == {401, 429, 500, 502, 503, 504}

\* status_forcelist=[429, 500, 502, 503, 504] (line 90)
StatusForcelist == {429, 500, 502, 503, 504}

\* Retry.is_retry for a GET, which allowed_methods lists: the status is in
\* status_forcelist (a Retry-After header matters for 413, 429 and 503
\* only, and 413 is not among StatusCodes)
IsRetry(status) == status \in StatusForcelist

\* Retry.increment raised MaxRetryError; with raise_on_status, which is the
\* default, session.get raises requests' RetryError, a RequestException,
\* and get's last except clause turns it into HTTPError (lines 167-168)
OnRetriesExhausted == "HTTPError"

\* what get does with a response that session.get returned (lines 146-161);
\* raise_for_status raises requests' HTTPError for 4xx and 5xx, which the
\* last except clause turns into HTTPError
OnResponse(status) ==
    IF status = 401 THEN "AuthenticationError"
    ELSE IF status = 429 THEN "RateLimitError"
    ELSE IF status >= 400 THEN "HTTPError"
    ELSE ""

\* no run in progress
HttpIdle ==
    /\ http_pc = "idle"
    /\ gets = 0
    /\ attempts = 0
    /\ retries_left = 0
    /\ statuses = <<>>
    /\ http_error = ""
    /\ run_error = ""

\* http_client.get, called by _paginate for the first or the next page
\* (analytics_client.py line 146)
HttpGet ==
    /\ http_pc \in {"idle", "between"}
    /\ gets < MaxGets
    /\ http_pc' = "sending"
    /\ gets' = gets + 1
    /\ attempts' = 0
    /\ retries_left' = max_retries
    /\ statuses' = <<>>
    /\ http_error' = ""
    /\ run_error' = ""
    /\ UNCHANGED <<max_retries, client_vars, export_vars, auth_vars>>

\* One request of the current get and the server's answer.  A status the
\* strategy retries costs one of retries_left, and the request is sent
\* again (after the backoff sleep); with none left session.get raises.  Any
\* other response goes back to get.  An exception of get is wrapped by
\* _paginate into PaginationError (analytics_client.py lines 147-148), which
\* ends the run; a page that is not the last is followed by the next get.
HttpAttempt ==
    /\ http_pc = "sending"
    /\ \E status \in StatusCodes, more \in BOOLEAN :
          LET raised == IF IsRetry(status) THEN OnRetriesExhausted
                        ELSE OnResponse(status)
              again == IsRetry(status) /\ retries_left > 0
          IN  /\ more => (gets < MaxGets /\ ~again /\ raised = "")
              /\ attempts' = attempts + 1
              /\ statuses' = Append(statuses, status)
              /\ retries_left' = IF again THEN retries_left - 1 ELSE retries_left
              /\ http_error' = IF again THEN "" ELSE raised
              /\ run_error' = IF ~again /\ raised # "" THEN "PaginationError"
                              ELSE ""
              /\ http_pc' = IF again THEN "sending"
                            ELSE IF raised = "" /\ more THEN "between"
                            ELSE "done"
    /\ UNCHANGED <<max_retries, gets, client_vars, export_vars, auth_vars>>

\* the run is over; the next one starts from nothing
HttpFinish ==
    /\ http_pc = "done"
    /\ http_pc' = "idle"
    /\ gets' = 0
    /\ attempts' = 0
    /\ retries_left' = 0
    /\ statuses' = <<>>
    /\ http_error' = ""
    /\ run_error' = ""
    /\ UNCHANGED <<max_retries, client_vars, export_vars, auth_vars>>

(***************************************************************************)
(* run_export (cli.py): one action, the function from its first statement  *)
(* to its return.  Its inputs are the parsed arguments and the             *)
(* environment: whether AUGMENT_API_TOKEN is set, and what the two fetches *)
(* of the client would do.                                                 *)
(***************************************************************************)
DateEarlier == <<"2", "0", "2", "6", "-", "0", "1", "-", "0", "1">>

ExportDates == {DateGood, DateEarlier, DateBadMonth, DateUnpadded}

\* parse_args rejects --csv-only together with --json-only (lines 128-129)
OutputFlags == {<<FALSE, FALSE>>, <<TRUE, FALSE>>, <<FALSE, TRUE>>}

\* --last-28-days, or --start-date with --end-date (lines 62-125)
ExportArgs ==
    {[last_28_days |-> l, start_date |-> sd, end_date |-> ed,
      csv_only |-> f[1], json_only |-> f[2]] :
        l \in {TRUE}, sd \in {NoneStr}, ed \in {NoneStr}, f \in OutputFlags}
    \cup
    {[last_28_days |-> l, start_date |-> sd, end_date |-> ed,
      csv_only |-> f[1], json_only |-> f[2]] :
        l \in {FALSE}, sd \in ExportDates, ed \in ExportDates,
        f \in OutputFlags}

ExportEnvs ==
    [token_set : BOOLEAN,
     fetch_user_activity : {"ok", "PaginationError"},
     fetch_dau_count : {"ok", "empty", "AnalyticsAPIError"}]

NoExportArgs ==
    [last_28_days |-> FALSE, start_date |-> NoneStr, end_date |-> NoneStr,
     csv_only |-> FALSE, json_only |-> FALSE]

NoExportEnv ==
    [token_set |-> FALSE, fetch_user_activity |-> "", fetch_dau_count |-> ""]

\* run_export has not returned
NoExit == 0 - 1

\* ord(c) of the characters of a date string
CharOrd(c) == IF c = "-" THEN 45 ELSE 48 + DigitVal(c)

\* a > b of two str
RECURSIVE StrGreater(_, _)
StrGreater(a, b) ==
    IF a = <<>> THEN FALSE
    ELSE IF b = <<>> THEN TRUE
    ELSE IF Head(a) # Head(b) THEN CharOrd(Head(a)) > CharOrd(Head(b))
    ELSE StrGreater(Tail(a), Tail(b))

\* get_date_range returns (does not raise ValueError); the last 28 days are
\* computed from the clock and are always a valid range
GetDateRangeOk(a) ==
    \/ a.last_28_days
    \/ /\ ValidateDateOk(a.start_date)
       /\ ValidateDateOk(a.end_date)
       /\ ~StrGreater(a.start_date, a.end_date)

\* the fields of Config; extra="ignore" drops any other environment
\* variable, ENTERPRISE_ID included
ConfigFields ==
    {"augment_api_token", "analytics_api_base_url", "output_dir",
     "log_level", "timezone", "request_timeout_seconds", "max_retries",
     "retry_backoff_seconds"}

\* the attributes of config that run_export reads before the client exists
ConfigReads == {"augment_api_token", "enterprise_id"}

\* the parameters of AnalyticsClient.__init__
AnalyticsClientParams ==
    {"api_token", "base_url", "timeout", "max_retries", "page_size"}

\* the keyword arguments run_export passes to AnalyticsClient
ClientKeywords ==
    {"api_token", "enterprise_id", "base_url", "timeout", "max_retries"}

Exit(code, calls) == [exit_code |-> code, calls |-> calls]

\* run_export: the steps in order, each of which either raises, which one
\* of the except clauses turns into exit code 1, or lets the next one run.
\* calls lists the functions entered.  Config() raises ValidationError, a
\* ValueError, without a token; reading an attribute Config does not have
\* raises AttributeError; a keyword __init__ does not have raises TypeError.
RunExportOf(a, env) ==
    LET c1 == <<"get_config">>
        c2 == c1 \o <<"ensure_output_dir", "get_date_range">>
        c3 == c2 \o <<"AnalyticsClient">>
        c4 == c3 \o <<"MetricsTransformer", "fetch_user_activity">>
        c5 == c4 \o <<"fetch_dau_count">>
        c6 == c5 \o <<"transform_user_metrics">>
        c7 == c6 \o (IF a.csv_only THEN <<>> ELSE <<"write_json_file">>)
        c8 == c7 \o (IF a.json_only THEN <<>> ELSE <<"write_csv_file">>)
    IN  IF ~env.token_set THEN Exit(1, c1)
        ELSE IF ~GetDateRangeOk(a) THEN Exit(1, c2)
        ELSE IF ~(ConfigReads \subseteq ConfigFields) THEN Exit(1, c2)
        ELSE IF ~(ClientKeywords \subseteq AnalyticsClientParams)
             THEN Exit(1, c3)
        ELSE IF env.fetch_user_activity # "ok" THEN Exit(1, c4)
        ELSE IF env.fetch_dau_count \notin {"ok", "empty"} THEN Exit(1, c5)
        ELSE Exit(0, c8)

ExportIdle ==
    /\ export_pc = "idle"
    /\ export_args = NoExportArgs
    /\ export_env = NoExportEnv
    /\ export_calls = <<>>
    /\ exit_code = NoExit

RunExport ==
    /\ export_pc = "idle"
    /\ \E a \in ExportArgs, env \in ExportEnvs :
          LET r == RunExportOf(a, env)
          IN  /\ export_args' = a
              /\ export_env' = env
              /\ export_calls' = r.calls
              /\ exit_code' = r.exit_code
    /\ export_pc' = "done"
    /\ UNCHANGED <<client_vars, http_vars, auth_vars>>

\* the process exits with the code; the next run is a new process
ExportFinish ==
    /\ export_pc = "done"
    /\ export_pc' = "idle"
    /\ export_args' = NoExportArgs
    /\ export_env' = NoExportEnv
    /\ export_calls' = <<>>
    /\ exit_code' = NoExit
    /\ UNCHANGED <<client_vars, http_vars, auth_vars>>

(***************************************************************************)
(* TokenAuth (token_auth.py): the credentials file and the calls on it.    *)
(* A str is a sequence of characters; the file is whether it exists,       *)
(* whether its content parses to a JSON object, and that object.           *)
(***************************************************************************)
Whitespace == {" ", "\t", "\n"}

RECURSIVE LStrip(_)
LStrip(s) ==
    IF s # <<>> /\ Head(s) \in Whitespace THEN LStrip(Tail(s)) ELSE s

RECURSIVE RStrip(_)
RStrip(s) ==
    IF s # <<>> /\ s[Len(s)] \in Whitespace
    THEN RStrip(SubSeq(s, 1, Len(s) - 1))
    ELSE s

\* s.strip()
Strip(s) == RStrip(LStrip(s))

Tok == <<"t", "o", "k">>
TokPadded == <<" ", "t", "o", "k", "\n">>
TokInner == <<"t", " ", "k">>
Ent == <<"e", "1">>
EntPadded == <<"\t", "e", "1", " ">>
BlankStr == <<" ", "\t">>

Tokens == {Tok, TokPadded, TokInner, BlankStr, <<>>}
EnterpriseIds == {Ent, EntPadded, BlankStr, <<>>}

NoDict == [k \in {} |-> <<>>]
NoFile == [exists |-> FALSE, is_dict |-> FALSE, dict |-> NoDict]
\* a file that is not JSON, or JSON that is not an object
CorruptFile == [exists |-> TRUE, is_dict |-> FALSE, dict |-> NoDict]
\* a file holding {}
EmptyFile == [exists |-> TRUE, is_dict |-> TRUE, dict |-> NoDict]

InitialFiles == {NoFile, CorruptFile, EmptyFile}

\* _load_credentials: None unless the file exists and holds a JSON object
LoadCredentials(file) ==
    IF ~file.exists THEN [none |-> TRUE, dict |-> NoDict]
    ELSE IF ~file.is_dict THEN [none |-> TRUE, dict |-> NoDict]
    ELSE [none |-> FALSE, dict |-> file.dict]

\* credentials.get(key) if credentials else None; an empty dict is falsy
GetCredential(file, key) ==
    LET credentials == LoadCredentials(file)
    IN  IF credentials.none \/ DOMAIN credentials.dict = {} THEN NoneStr
        ELSE Get(credentials.dict, key, NoneStr)

\* a plausible slip: the values are stored as given
StoredCredentialsUnstripped(token, enterprise_id) ==
    ("augment_api_token" :> token) @@ ("enterprise_id" :> enterprise_id)

\* the credentials dict save_token writes (lines 70-73)
StoredCredentials(token, enterprise_id) ==
    ("augment_api_token" :> Strip(token))
        @@ ("enterprise_id" :> Strip(enterprise_id))

\* the validation of save_token (lines 65-69)
SaveTokenError(token, enterprise_id) ==
    IF ~Truthy(token) \/ ~Truthy(Strip(token)) THEN "Token cannot be empty"
    ELSE IF ~Truthy(enterprise_id) \/ ~Truthy(Strip(enterprise_id))
         THEN "Enterprise ID cannot be empty"
    ELSE ""

Call(name) == [name |-> name, token |-> NoneStr, enterprise_id |-> NoneStr]
ReturnsStr(v) == [str |-> v, bool |-> FALSE]
ReturnsBool(b) == [str |-> NoneStr, bool |-> b]
NothingSaved == [live |-> FALSE, token |-> NoneStr, enterprise_id |-> NoneStr]

AuthStart(file) ==
    /\ credentials_file = file
    /\ auth_op = Call("")
    /\ auth_value = ReturnsStr(NoneStr)
    /\ auth_error = ""
    /\ saved = NothingSaved

\* save_token; saved keeps the arguments of the last call that returned
SaveToken ==
    /\ \E token \in Tokens, enterprise_id \in EnterpriseIds :
          LET e == SaveTokenError(token, enterprise_id)
          IN  /\ auth_op' = [name |-> "save_token", token |-> token,
                             enterprise_id |-> enterprise_id]
              /\ auth_error' = e
              /\ credentials_file' =
                    IF e # "" THEN credentials_file
                    ELSE [exists |-> TRUE, is_dict |-> TRUE,
                          dict |-> StoredCredentials(token, enterprise_id)]
              /\ saved' =
                    IF e # "" THEN saved
                    ELSE [live |-> TRUE, token |-> token,
                          enterprise_id |-> enterprise_id]
    /\ auth_value' = ReturnsStr(NoneStr)
    /\ UNCHANGED <<client_vars, http_vars, export_vars>>

GetToken ==
    /\ auth_op' = Call("get_token")
    /\ auth_value' = ReturnsStr(GetCredential(credentials_file,
                                              "augment_api_token"))
    /\ auth_error' = ""
    /\ UNCHANGED <<credentials_file, saved>>
    /\ UNCHANGED <<client_vars, http_vars, export_vars>>

GetEnterpriseId ==
    /\ auth_op' = Call("get_enterprise_id")
    /\ auth_value' = ReturnsStr(GetCredential(credentials_file,
                                              "enterprise_id"))
    /\ auth_error' = ""
    /\ UNCHANGED <<credentials_file, saved>>
    /\ UNCHANGED <<client_vars, http_vars, export_vars>>

HasCredentials ==
    /\ auth_op' = Call("has_credentials")
    /\ auth_value' =
          ReturnsBool(/\ credentials_file.exists
                      /\ GetCredential(credentials_file,
                                       "augment_api_token") # NoneStr)
    /\ auth_error' = ""
    /\ UNCHANGED <<credentials_file, saved>>
    /\ UNCHANGED <<client_vars, http_vars, export_vars>>

ClearCredentials ==
    /\ auth_op' = Call("clear_credentials")
    /\ auth_value' = ReturnsStr(NoneStr)
    /\ auth_error' = ""
    /\ credentials_file' = IF credentials_file.exists THEN NoFile
                           ELSE credentials_file
    /\ saved' = [saved EXCEPT !.live = FALSE]
    /\ UNCHANGED <<client_vars, http_vars, export_vars>>

(***************************************************************************)
(* The client and the transformer, called in any order on one instance.    *)
(***************************************************************************)
ClientInit ==
    /\ page_size \in PageSizes
    /\ pc = "idle"
    /\ op = ""
    /\ args = NoArgs
    /\ params_given = NoParams
    /\ params_in = NoParams
    /\ request_params = NoParams
    /\ cursor = None
    /\ page_num = 0
    /\ endpoint = ""
    /\ requests = <<>>
    /\ responses = <<>>
    /\ results = <<>>
    /\ returned = FALSE
    /\ value = <<>>
    /\ report = NoReport
    /\ row = NoRow
    /\ warnings = <<>>
    /\ user_activity_in = <<>>
    /\ prev_cursor = None
    /\ error = NoError
    /\ cause = ""
    /\ server_left = Unbounded

\* max_retries: int = 3, the default of AnalyticsClient and HTTPClient
DefaultMaxRetries == 3

Init ==
    /\ ClientInit
    /\ max_retries = DefaultMaxRetries
    /\ HttpIdle
    /\ ExportIdle
    /\ AuthStart(NoFile)

Next ==
    \/ FetchUserActivity
    \/ FetchEditorLanguageBreakdown
    \/ FetchDailyUsage
    \/ FetchDauCount
    \/ Paginate
    \/ PaginateStep
    \/ TransformUserMetrics
    \/ TransformToCsvRow
    \/ Finish

Spec == Init /\ [][Next]_vars

(***************************************************************************)
(* Reuse of one instance.  ReuseSpec is Spec with a record of the past:    *)
(* when a call ends, prev_cursor keeps the cursor its pagination loop      *)
(* still held (None if it held none).  No action reads prev_cursor.        *)
(***************************************************************************)
ReuseFinish ==
    /\ pc = "done"
    /\ pc' = "idle"
    /\ op' = ""
    /\ args' = NoArgs
    /\ error' = NoError
    /\ cause' = ""
    /\ returned' = FALSE
    /\ report' = NoReport
    /\ row' = NoRow
    /\ warnings' = <<>>
    /\ user_activity_in' = <<>>
    /\ value' = <<>>
    /\ params_given' = NoParams
    /\ params_in' = NoParams
    /\ request_params' = NoParams
    /\ cursor' = None
    /\ page_num' = 0
    /\ endpoint' = ""
    /\ requests' = <<>>
    /\ responses' = <<>>
    /\ results' = <<>>
    /\ prev_cursor' = IF TruthyCursor(cursor) THEN cursor ELSE None
    /\ UNCHANGED other_vars
    /\ UNCHANGED <<page_size, server_left>>

ReuseNext ==
    \/ FetchUserActivity
    \/ FetchEditorLanguageBreakdown
    \/ FetchDailyUsage
    \/ FetchDauCount
    \/ Paginate
    \/ PaginateStep
    \/ TransformUserMetrics
    \/ TransformToCsvRow
    \/ ReuseFinish

ReuseSpec == Init /\ [][ReuseNext]_vars


(***************************************************************************)
(* Termination of a pagination run.  LiveSpec follows the loop's control   *)
(* state only (pc, cursor, request_params): the lists of requests,         *)
(* responses and items are not kept, and of page_num, which feeds log      *)
(* messages alone, only the parity is, so that an endless run is a cycle   *)
(* through finitely many states and yet every iteration changes the state. *)
(* The server links each page to a next one while server_left allows: a    *)
(* chain of at most server_left further pages, or one without end          *)
(* (Unbounded).  The loop is synchronous code and every request returns    *)
(* or times out, so an iteration that can run does run: weak fairness.     *)
(***************************************************************************)
ServerBudgets == (0..MaxPages) \cup {Unbounded}

\* the response links to a further page
LinksNextPage(resp) ==
    /\ resp.transport = "ok"
    /\ resp.is_dict
    /\ resp.pagination.tag = "dict"
    /\ resp.pagination.next_cursor \notin {Absent, None, ""}

LivePaginateStep ==
    /\ pc = "paginating"
    /\ \E resp \in PageResponses :
          LET rp == RequestParamsFor(request_params, cursor)
              out == PageOutcome(resp)
          IN  /\ server_left = 0 => ~LinksNextPage(resp)
              /\ server_left' = IF server_left > 0 /\ LinksNextPage(resp)
                                THEN server_left - 1 ELSE server_left
              /\ request_params' = rp
              /\ params_in' = CallerView(params_in, rp)
              /\ cursor' = IF out.kind = "raise" THEN cursor ELSE out.next
              /\ pc' = IF out.kind = "continue" THEN "paginating" ELSE "done"
              /\ error' = IF out.kind = "raise"
                          THEN [type |-> "PaginationError", msg |-> out.msg]
                          ELSE NoError
              /\ cause' = out.cause
              /\ returned' = (out.kind = "break")
              /\ page_num' = (page_num + 1) % 2
              /\ UNCHANGED other_vars
              /\ UNCHANGED <<page_size, op, args, params_given, endpoint, report,
                             row, warnings, user_activity_in, prev_cursor,
                             requests, responses, results, value>>

\* the caller takes the outcome; the next run meets a server of its own
LiveFinish ==
    /\ pc = "done"
    /\ pc' = "idle"
    /\ op' = ""
    /\ args' = NoArgs
    /\ error' = NoError
    /\ cause' = ""
    /\ returned' = FALSE
    /\ params_given' = NoParams
    /\ params_in' = NoParams
    /\ request_params' = NoParams
    /\ cursor' = None
    /\ endpoint' = ""
    /\ page_num' = 0
    /\ server_left' \in ServerBudgets
    /\ UNCHANGED other_vars
    /\ UNCHANGED <<page_size, report, requests, responses, results, value,
                   row, warnings, user_activity_in, prev_cursor>>

LiveNext ==
    \/ FetchUserActivity
    \/ FetchEditorLanguageBreakdown
    \/ FetchDailyUsage
    \/ Paginate
    \/ LivePaginateStep
    \/ LiveFinish

LiveSpec == Init /\ [][LiveNext]_vars /\ WF_vars(LivePaginateStep)

(***************************************************************************)
(* The HTTP layer alone, under every max_retries up to MaxRetries.         *)
(***************************************************************************)
HttpInit ==
    /\ ClientInit
    /\ max_retries \in 0..MaxRetries
    /\ HttpIdle
    /\ ExportIdle
    /\ AuthStart(NoFile)

HttpNext ==
    \/ HttpGet
    \/ HttpAttempt
    \/ HttpFinish

HttpSpec == HttpInit /\ [][HttpNext]_vars

(***************************************************************************)
(* run_export alone.                                                       *)
(***************************************************************************)
ExportNext ==
    \/ RunExport
    \/ ExportFinish

ExportSpec == Init /\ [][ExportNext]_vars

(***************************************************************************)
(* One TokenAuth on one credentials path, from a path that holds no        *)
(* credentials.                                                            *)
(***************************************************************************)
AuthInit ==
    /\ ClientInit
    /\ max_retries = DefaultMaxRetries
    /\ HttpIdle
    /\ ExportIdle
    /\ \E file \in InitialFiles : AuthStart(file)

AuthNext ==
    \/ SaveToken
    \/ GetToken
    \/ GetEnterpriseId
    \/ HasCredentials
    \/ ClearCredentials

AuthSpec == AuthInit /\ [][AuthNext]_vars


(***************************************************************************)
(* Properties.                                                             *)
(***************************************************************************)
PaginatedOps ==
    {"fetch_user_activity", "fetch_daily_usage",
     "fetch_editor_language_breakdown", "_paginate"}

\* a response in the standard envelope: a JSON object with a list under
\* data and an object under pagination
WellFormedPage(resp) ==
    /\ resp.transport = "ok"
    /\ resp.is_dict
    /\ resp.data.tag = "list"
    /\ resp.pagination.tag = "dict"

\* the items of the pages rs, page after page
RECURSIVE ItemsOfPages(_)
ItemsOfPages(rs) ==
    IF rs = <<>> THEN <<>>
    ELSE ItemsOfPages(SubSeq(rs, 1, Len(rs) - 1)) \o rs[Len(rs)].data.items

\* the server answered with N >= 1 well-formed pages, the first N-1 with a
\* non-empty next_cursor, the N-th with none (null, "" or no key)
ChainOfPages(rs) ==
    /\ Len(rs) >= 1
    /\ \A k \in 1..Len(rs) : WellFormedPage(rs[k])
    /\ \A k \in 1..(Len(rs) - 1) : LinksNextPage(rs[k])
    /\ ~LinksNextPage(rs[Len(rs)])

\* C1: in a paginated fetch, once the server has answered with N pages of
\* which the first N-1 carry a non-empty next_cursor and the N-th none, the
\* run is over, exactly N requests were issued, and the call returned the
\* pages' items concatenated in arrival order.
C1_NPagesNRequests ==
    (op \in PaginatedOps /\ ChainOfPages(responses)) =>
        /\ pc = "done"
        /\ returned
        /\ error = NoError
        /\ Len(requests) = Len(responses)
        /\ value = ItemsOfPages(responses)

C1_Witness ==
    /\ op = "fetch_user_activity"
    /\ ChainOfPages(responses)
    /\ Len(responses) = 3
    /\ returned
    /\ value = <<1, 2, 1>>

\* C2: in a pagination run the first request carries no cursor parameter,
\* request k+1 carries the next_cursor of response k, every request carries
\* the caller's other parameters (and limit = page_size when configured),
\* and the caller's params mapping stays as the caller built it.
C2_CursorProtocol ==
    op \in PaginatedOps =>
        /\ Len(requests) >= 1 => requests[1].params.cursor = Absent
        /\ \A k \in 1..(Len(requests) - 1) :
              requests[k + 1].params.cursor = responses[k].pagination.next_cursor
        /\ \A k \in 1..Len(requests) :
              /\ requests[k].params.date = params_given.date
              /\ requests[k].params.start_date = params_given.start_date
              /\ requests[k].params.end_date = params_given.end_date
              /\ requests[k].params.limit =
                    (IF page_size # 0 THEN page_size ELSE params_given.limit)
              /\ requests[k].endpoint = endpoint
        /\ params_in = params_given

C2_Witness ==
    /\ op = "_paginate"
    /\ params_given.cursor = "c9"
    /\ page_size = 50
    /\ Len(requests) = 3
    /\ requests[1].params.cursor = Absent
    /\ requests[2].params.cursor = "c1"
    /\ requests[3].params.cursor = "c2"

\* C3 as stated: every pagination run ends, whatever the server answers.
C3_AlwaysTerminates == (pc = "paginating") ~> (pc = "done")

\* C3, amended: a pagination run ends when the server's chain of next_cursor
\* links is finite.
C3_TerminatesOnFiniteChain ==
    (pc = "paginating" /\ server_left # Unbounded) ~> (pc = "done")

\* a run that followed a cursor came to its end on a finite chain
C3_Witness ==
    /\ pc = "done"
    /\ returned
    /\ server_left = 0
    /\ request_params.cursor = "c2"


\* C4 as stated: a response that is not a mapping, or whose data is missing
\* or not a list, or whose pagination is missing or not a mapping, ends the
\* fetch with PaginationError; it is never taken for an empty or last page.
MalformedEnvelope(resp) ==
    /\ resp.transport = "ok"
    /\ \/ ~resp.is_dict
       \/ resp.data.tag # "list"
       \/ resp.pagination.tag # "dict"

C4_EnvelopeValidated ==
    op \in PaginatedOps =>
        \A k \in 1..Len(responses) :
            MalformedEnvelope(responses[k]) =>
                /\ k = Len(responses)
                /\ pc = "done"
                /\ error.type = "PaginationError"
                /\ ~returned

\* C5: a transport error on the request for page k ends the run with
\* PaginationError wrapping it: page k is not asked for again and no
\* further request is issued.
C5_TransportErrorHardStop ==
    op \in PaginatedOps =>
        \A k \in 1..Len(responses) :
            responses[k].transport # "ok" =>
                /\ k = Len(responses)
                /\ Len(requests) = k
                /\ pc = "done"
                /\ error = [type |-> "PaginationError", msg |-> "Failed to fetch page"]
                /\ cause = responses[k].transport
                /\ ~returned
                /\ value = <<>>

C5_Witness ==
    /\ op = "fetch_daily_usage"
    /\ Len(responses) = 2
    /\ responses[2].transport = "RateLimitError"
    /\ error.type = "PaginationError"
    /\ cause = "RateLimitError"

\* an optional date argument was given (None and "" count as not given)
Given(x) == x # NoneStr /\ x # <<>>

BadDateCombination(a) ==
    \/ Given(a.date) /\ (Given(a.start_date) \/ Given(a.end_date))
    \/ Given(a.start_date) /\ ~Given(a.end_date)
    \/ Given(a.end_date) /\ ~Given(a.start_date)

\* C6: fetch_user_activity and fetch_editor_language_breakdown, given a date
\* together with either end of a range, or one end of a range alone, fail
\* with a parameter error and no HTTP request is issued.
C6_ParameterErrors ==
    (/\ op \in {"fetch_user_activity", "fetch_editor_language_breakdown"}
     /\ BadDateCombination(args)) =>
        /\ pc = "done"
        /\ error.type = "ValueError"
        /\ error.msg \in {"Cannot specify both", "Both must be specified together"}
        /\ requests = <<>>
        /\ ~returned

C6_Witness ==
    /\ op = "fetch_editor_language_breakdown"
    /\ args.date = NoneStr
    /\ args.start_date = NoneStr
    /\ args.end_date = DateGood
    /\ error.msg = "Both must be specified together"
    /\ requests = <<>>

\* a date in the form YYYY-MM-DD: four, two and two digits that name a day
IsYYYYMMDD(s) ==
    /\ Len(s) = 10
    /\ \A i \in {1, 2, 3, 4, 6, 7, 9, 10} : s[i] \in Digits
    /\ s[5] = "-"
    /\ s[8] = "-"
    /\ CalendarDate(NumVal(SubSeq(s, 1, 4)), NumVal(SubSeq(s, 6, 7)),
                    NumVal(SubSeq(s, 9, 10)))

DatedOps ==
    {"fetch_user_activity", "fetch_daily_usage", "fetch_dau_count",
     "fetch_editor_language_breakdown", "transform_user_metrics"}

\* C7 as stated: a call given a date that is not of the form YYYY-MM-DD fails
\* before any HTTP request and before any Report is built.
C7_InvalidDateRejected ==
    (/\ op \in DatedOps
     /\ \E x \in {args.date, args.start_date, args.end_date} :
           Given(x) /\ ~IsYYYYMMDD(x)) =>
        /\ pc = "done"
        /\ error.type \in {"ValueError", "TransformationError"}
        /\ requests = <<>>
        /\ ~returned
        /\ report = NoReport

C9_ActiveAtLeastEngaged ==
    (op = "transform_user_metrics" /\ returned) =>
        report.total_active_users >= report.total_engaged_users

\* an override below the engaged count
C9_Witness ==
    /\ op = "transform_user_metrics"
    /\ returned
    /\ args.dau_count = [given |-> TRUE, n |-> 1]
    /\ report.total_engaged_users = 2
    /\ report.total_active_users = 2

Max(a, b) == IF a >= b THEN a ELSE b

\* C10: for a valid date a Report is returned whose total_active_users is
\* max(override, total_engaged_users) when an override is supplied and the
\* number of input records when none is.
C10_ActiveUsersValue ==
    (op = "transform_user_metrics" /\ IsYYYYMMDD(args.date)) =>
        /\ pc = "done"
        /\ returned
        /\ error = NoError
        /\ report.total_active_users =
              (IF args.dau_count.given
               THEN Max(args.dau_count.n, report.total_engaged_users)
               ELSE Len(args.user_activity))

\* an override of 0 for records none of which is engaged
C10_Witness ==
    /\ op = "transform_user_metrics"
    /\ returned
    /\ args.dau_count = [given |-> TRUE, n |-> 0]
    /\ Len(args.user_activity) = 2
    /\ report.total_engaged_users = 0
    /\ report.total_active_users = 0

(***************************************************************************)
(* Properties of the transformer.  The raw records are read here with      *)
(* Present and Counter, which say what a record holds without going        *)
(* through the transformer's own operators.                                *)
(***************************************************************************)
MetricsIn(user) ==
    IF "metrics" \in DOMAIN user THEN user["metrics"] ELSE [k \in {} |-> 0]

\* the record holds the field (active_days at top level, counters in metrics)
Present(user, k) ==
    IF k = "active_days" THEN k \in DOMAIN user
    ELSE k \in DOMAIN MetricsIn(user)

\* the value of a field, a missing one counted as 0
Counter(user, k) ==
    IF ~Present(user, k) THEN 0
    ELSE IF k = "active_days" THEN user[k] ELSE MetricsIn(user)[k]

AgentMessageFields ==
    {"remote_agent_messages", "ide_agent_messages",
     "cli_agent_interactive_messages", "cli_agent_non_interactive_messages"}

AgentLocFields ==
    {"remote_agent_lines_of_code", "ide_agent_lines_of_code",
     "cli_agent_interactive_lines_of_code",
     "cli_agent_non_interactive_lines_of_code"}

\* a Report was returned by transform_user_metrics
ReportReturned == op = "transform_user_metrics" /\ returned

\* the indices of the input records
Records == 1..Len(args.user_activity)

\* C11: in every Report, record by record, agent_edit's interaction count is
\* the sum of the four agent message fields of the raw record and agent_edit's
\* loc_added_sum the sum of its four agent lines-of-code fields, a missing
\* field counted as 0 and nothing else added.
C11_AgentSums ==
    ReportReturned =>
        /\ Len(report.breakdown) = Len(args.user_activity)
        /\ \A i \in Records :
              LET raw == args.user_activity[i]
                  rec == report.breakdown[i]
              IN  /\ rec.agent_edit.user_initiated_interaction_count =
                        Counter(raw, "remote_agent_messages")
                        + Counter(raw, "ide_agent_messages")
                        + Counter(raw, "cli_agent_interactive_messages")
                        + Counter(raw, "cli_agent_non_interactive_messages")
                  /\ rec.agent_edit.loc_added_sum =
                        Counter(raw, "remote_agent_lines_of_code")
                        + Counter(raw, "ide_agent_lines_of_code")
                        + Counter(raw, "cli_agent_interactive_lines_of_code")
                        + Counter(raw, "cli_agent_non_interactive_lines_of_code")

\* a record with all eight fields next to one with only two of them
C11_Witness ==
    /\ ReportReturned
    /\ Len(report.breakdown) = 2
    /\ \A k \in AgentMessageFields \cup AgentLocFields :
          Present(args.user_activity[1], k) /\ Counter(args.user_activity[1], k) > 0
    /\ report.breakdown[1].agent_edit.user_initiated_interaction_count = 244
    /\ report.breakdown[1].agent_edit.loc_added_sum = 28940
    /\ ~Present(args.user_activity[2], "remote_agent_messages")
    /\ report.breakdown[2].agent_edit.user_initiated_interaction_count = 4
    /\ report.breakdown[2].agent_edit.loc_added_sum = 440

\* the record has one of the three activity counts above 0
EngagedRecord(rec) ==
    \/ rec.code_generation_activity_count > 0
    \/ rec.chat_panel.user_initiated_interaction_count > 0
    \/ rec.agent_edit.user_initiated_interaction_count > 0

\* C12: total_engaged_users is the number of input records whose Report
\* record has code_generation_activity_count, chat_panel's or agent_edit's
\* interaction count above 0; a record with all three at 0 is not counted,
\* whatever its active_days and lines of code.
C12_EngagedCount ==
    ReportReturned =>
        /\ Len(report.breakdown) = Len(args.user_activity)
        /\ report.total_engaged_users =
              Cardinality({i \in Records : EngagedRecord(report.breakdown[i])})

\* an idle record with active days and lines of code next to an engaged one
C12_Witness ==
    /\ ReportReturned
    /\ Len(report.breakdown) = 2
    /\ ~EngagedRecord(report.breakdown[1])
    /\ report.breakdown[1].active_days > 0
    /\ report.breakdown[1].loc_added_sum > 0
    /\ report.breakdown[1].agent_edit.loc_added_sum > 0
    /\ EngagedRecord(report.breakdown[2])
    /\ report.total_engaged_users = 1

\* the fields mapped one to one, each with the value its target holds in a
\* Report record
DirectTargets(rec) ==
    [active_days |-> rec.active_days,
     completions_count |-> rec.code_generation_activity_count,
     completions_accepted |-> rec.code_acceptance_activity_count,
     total_modified_lines_of_code |-> rec.loc_added_sum,
     chat_messages |-> rec.chat_panel.user_initiated_interaction_count,
     completions_lines_of_code |-> rec.code_completions.loc_added_sum]

\* the columns of the flat row that carry a field as it is
RowColumns ==
    [active_days |-> {"Active Days"},
     completions_count |-> {"Completions", "Copilot Code Generation"},
     completions_accepted |-> {"Accepted Completions", "Copilot Code Acceptance"},
     chat_messages |-> {"Chat Messages", "Copilot Chat Interactions"},
     remote_agent_messages |-> {"Remote Agent Messages"},
     ide_agent_messages |-> {"IDE Agent Messages"},
     cli_agent_interactive_messages |-> {"CLI Interactive Messages"},
     cli_agent_non_interactive_messages |-> {"CLI Non-Interactive Messages"},
     total_tool_calls |-> {"Total Tool Calls"},
     total_modified_lines_of_code |-> {"Total Modified LOC"},
     completions_lines_of_code |-> {"Completion LOC"},
     remote_agent_lines_of_code |-> {"Remote Agent LOC"},
     ide_agent_lines_of_code |-> {"IDE Agent LOC"}]

CliLocFields ==
    {"cli_agent_interactive_lines_of_code",
     "cli_agent_non_interactive_lines_of_code"}

\* every field the raw record lacks shows as 0 in its Report record
MissingAreZeroInRecord(raw, rec) ==
    /\ \A k \in DOMAIN DirectTargets(rec) :
          ~Present(raw, k) => DirectTargets(rec)[k] = 0
    /\ (\A k \in AgentMessageFields : ~Present(raw, k)) =>
          rec.agent_edit.user_initiated_interaction_count = 0
    /\ (\A k \in AgentLocFields : ~Present(raw, k)) =>
          rec.agent_edit.loc_added_sum = 0

\* every field the raw record lacks shows as 0 in its flat row
MissingAreZeroInRow(raw, r) ==
    /\ \A k \in DOMAIN RowColumns :
          ~Present(raw, k) => \A col \in RowColumns[k] : r[col] = 0
    /\ (\A k \in AgentMessageFields : ~Present(raw, k)) =>
          r["Copilot Agent Interactions"] = 0
    /\ (\A k \in CliLocFields : ~Present(raw, k)) => r["CLI Agent LOC"] = 0

\* C13: transform_user_metrics fails only when its date is not a YYYY-MM-DD
\* date and transform_to_csv_row never fails; whatever fields a raw record
\* lacks (counters, the metrics mapping, active_days, the identity), every
\* missing counter is 0 in the Report record and in the flat row.
C13_MissingDefaultToZero ==
    /\ op = "transform_user_metrics" =>
          /\ pc = "done"
          /\ (error # NoError => ~IsYYYYMMDD(args.date))
          /\ (error = NoError =>
                /\ returned
                /\ Len(report.breakdown) = Len(args.user_activity)
                /\ \A i \in Records :
                      MissingAreZeroInRecord(args.user_activity[i],
                                             report.breakdown[i]))
    /\ op = "transform_to_csv_row" =>
          /\ pc = "done"
          /\ returned
          /\ error = NoError
          /\ MissingAreZeroInRow(args.user, row)

\* a Report for a record with no field at all and one without active_days
\* and without most counters
C13_Witness ==
    /\ ReportReturned
    /\ Len(report.breakdown) = 2
    /\ DOMAIN args.user_activity[1] = {}
    /\ \A k \in DOMAIN DirectTargets(report.breakdown[1]) :
          DirectTargets(report.breakdown[1])[k] = 0
    /\ "metrics" \in DOMAIN args.user_activity[2]
    /\ ~Present(args.user_activity[2], "active_days")
    /\ ~Present(args.user_activity[2], "completions_count")
    /\ report.breakdown[2].active_days = 0

\* C14 as stated: for an empty list and a valid date every count of the
\* returned Report is 0 and the breakdown is empty.
C14_EmptyAllZero ==
    (op = "transform_user_metrics" /\ IsYYYYMMDD(args.date)
        /\ args.user_activity = <<>>) =>
        /\ returned
        /\ report.total_active_users = 0
        /\ report.total_engaged_users = 0
        /\ report.copilot_ide_code_completions.total_engaged_users = 0
        /\ report.copilot_ide_chat.total_engaged_users = 0
        /\ report.copilot_dotcom_chat.total_engaged_users = 0
        /\ report.copilot_dotcom_pull_requests.total_engaged_users = 0
        /\ report.breakdown = <<>>

\* C14: for an empty list and a valid date the returned Report has an empty
\* breakdown and every engaged count 0; total_active_users is the DAU
\* override when one is supplied and 0 when none is.
C14_EmptyReport ==
    (op = "transform_user_metrics" /\ IsYYYYMMDD(args.date)
        /\ args.user_activity = <<>>) =>
        /\ returned
        /\ report.total_active_users =
              (IF args.dau_count.given THEN args.dau_count.n ELSE 0)
        /\ report.total_engaged_users = 0
        /\ report.copilot_ide_code_completions.total_engaged_users = 0
        /\ report.copilot_ide_chat.total_engaged_users = 0
        /\ report.copilot_dotcom_chat.total_engaged_users = 0
        /\ report.copilot_dotcom_pull_requests.total_engaged_users = 0
        /\ report.breakdown = <<>>

\* an empty list with an override of 2
C14_Witness ==
    /\ ReportReturned
    /\ args.user_activity = <<>>
    /\ args.dau_count = [given |-> TRUE, n |-> 2]
    /\ report.breakdown = <<>>
    /\ report.total_active_users = 2

\* C15: in every Report, record by record, active_days,
\* code_generation_activity_count, code_acceptance_activity_count,
\* loc_added_sum, chat_panel's interaction count and code_completions'
\* loc_added_sum are the raw record's active_days, completions_count,
\* completions_accepted, total_modified_lines_of_code, chat_messages and
\* completions_lines_of_code, unchanged and whatever the other fields hold.
C15_DirectMapping ==
    ReportReturned =>
        /\ Len(report.breakdown) = Len(args.user_activity)
        /\ \A i \in Records :
              \A k \in DOMAIN DirectTargets(report.breakdown[i]) :
                 DirectTargets(report.breakdown[i])[k] =
                    Counter(args.user_activity[i], k)

\* a record whose total_modified_lines_of_code differs from its agent sum
C15_Witness ==
    /\ ReportReturned
    /\ Len(report.breakdown) = 1
    /\ \A k \in DOMAIN DirectTargets(report.breakdown[1]) :
          Present(args.user_activity[1], k)
    /\ report.breakdown[1].loc_added_sum = 28942
    /\ report.breakdown[1].agent_edit.loc_added_sum = 28940
    /\ report.breakdown[1].code_generation_activity_count = 12
    /\ report.breakdown[1].code_acceptance_activity_count = 2

\* a flat row was returned by transform_to_csv_row
RowReturned == op = "transform_to_csv_row" /\ returned

\* the identity as the mapping table gives it: the email when the record
\* has one, otherwise the service-account name
IdentityOf(user) ==
    IF "user_email" \in DOMAIN user /\ user["user_email"] # ""
    THEN user["user_email"]
    ELSE IF "service_account_name" \in DOMAIN user
    THEN user["service_account_name"]
    ELSE None

\* C16: for every raw record the flat row's User column is the identity of
\* the record, the email when present and otherwise the service-account
\* name, and is the same value as the user_email of the record's Report
\* record.
C16_IdentitySame ==
    RowReturned =>
        /\ row["User"] = TransformUserRecord(args.user).user_email
        /\ row["User"] = IdentityOf(args.user)

\* the sum of the given fields of a raw record, a missing one counted as 0
RECURSIVE SumOf(_, _)
SumOf(user, fields) ==
    IF fields = {} THEN 0
    ELSE LET k == CHOOSE x \in fields : TRUE
         IN  Counter(user, k) + SumOf(user, fields \ {k})

\* C19 as stated: the flat row carries the four-field interaction sum and
\* the four-field agent lines-of-code sum of the record's Report record.
C19_RowCarriesBothSums ==
    RowReturned =>
        /\ row["Copilot Agent Interactions"] =
              TransformUserRecord(args.user).agent_edit.user_initiated_interaction_count
        /\ \E col \in DOMAIN row \ {"User"} :
              row[col] = TransformUserRecord(args.user).agent_edit.loc_added_sum

\* C19: the flat row's Copilot Agent Interactions is the four-field sum of
\* the agent message fields, equal to agent_edit's interaction count of the
\* record's Report record.  Of the agent lines of code the row carries the
\* remote and IDE fields as they are and, as CLI Agent LOC, the sum of the
\* two CLI fields; the three columns add up to agent_edit's loc_added_sum.
C19_RowAggregates ==
    RowReturned =>
        LET rec == TransformUserRecord(args.user)
        IN  /\ row["Copilot Agent Interactions"] =
                  SumOf(args.user, AgentMessageFields)
            /\ row["Copilot Agent Interactions"] =
                  rec.agent_edit.user_initiated_interaction_count
            /\ row["CLI Agent LOC"] = SumOf(args.user, CliLocFields)
            /\ row["Remote Agent LOC"] + row["IDE Agent LOC"]
                  + row["CLI Agent LOC"] = rec.agent_edit.loc_added_sum

\* the row of a record with all eight agent fields
C19_Witness ==
    /\ RowReturned
    /\ \A k \in AgentMessageFields \cup AgentLocFields :
          Present(args.user, k) /\ Counter(args.user, k) > 0
    /\ row["Copilot Agent Interactions"] = 244
    /\ row["CLI Agent LOC"] = 1940
    /\ row["Remote Agent LOC"] = 15000
    /\ row["IDE Agent LOC"] = 12000

\* the raw record reports more accepted completions than completions
OverAccepting(user) ==
    Counter(user, "completions_accepted") > Counter(user, "completions_count")

\* the warnings of the call that are about acceptances above generations
AcceptanceWarnings ==
    {j \in 1..Len(warnings) :
        warnings[j] = "code_acceptance_activity_count > code_generation_activity_count"}

\* C17: a record with more acceptances than generations is neither rejected
\* nor altered: for a valid date the Report is returned, the record is in
\* the breakdown with both counters as in the source, and one warning per
\* such record is logged.
C17_OverAcceptanceKept ==
    (op = "transform_user_metrics" /\ IsYYYYMMDD(args.date)) =>
        /\ returned
        /\ error = NoError
        /\ Len(report.breakdown) = Len(args.user_activity)
        /\ \A i \in Records :
              OverAccepting(args.user_activity[i]) =>
                 /\ report.breakdown[i].code_acceptance_activity_count =
                       Counter(args.user_activity[i], "completions_accepted")
                 /\ report.breakdown[i].code_generation_activity_count =
                       Counter(args.user_activity[i], "completions_count")
        /\ Cardinality(AcceptanceWarnings) =
              Cardinality({i \in Records : OverAccepting(args.user_activity[i])})

\* a Report with such a record: 2 acceptances for 1 generation
C17_Witness ==
    /\ ReportReturned
    /\ Len(report.breakdown) = 2
    /\ OverAccepting(args.user_activity[2])
    /\ ~OverAccepting(args.user_activity[1])
    /\ report.breakdown[2].code_acceptance_activity_count = 2
    /\ report.breakdown[2].code_generation_activity_count = 1
    /\ Cardinality(AcceptanceWarnings) = 1

\* C18: copilot_ide_code_completions.total_engaged_users is the number of
\* input records with code_generation_activity_count above 0,
\* copilot_ide_chat.total_engaged_users the number with chat_panel's
\* interaction count above 0, and the two dotcom counts are 0.
C18_FeatureCounts ==
    ReportReturned =>
        /\ Len(report.breakdown) = Len(args.user_activity)
        /\ report.copilot_ide_code_completions.total_engaged_users =
              Cardinality({i \in Records :
                  report.breakdown[i].code_generation_activity_count > 0})
        /\ report.copilot_ide_chat.total_engaged_users =
              Cardinality({i \in Records :
                  report.breakdown[i].chat_panel.user_initiated_interaction_count > 0})
        /\ report.copilot_dotcom_chat.total_engaged_users = 0
        /\ report.copilot_dotcom_pull_requests.total_engaged_users = 0

\* two engaged records, one through chat and one through agents only
C18_Witness ==
    /\ ReportReturned
    /\ report.total_engaged_users = 2
    /\ report.copilot_ide_chat.total_engaged_users = 1
    /\ report.copilot_ide_code_completions.total_engaged_users = 0

\* _paginate as it starts on an instance that was never used
FreshStart ==
    [request_params |-> WithLimit(params_given, page_size), cursor |-> None,
     requests |-> <<>>, results |-> <<>>, kind |-> "continue"]

\* the run on such an instance against the responses rs, from the i-th on
RECURSIVE FreshRun(_, _, _)
FreshRun(run, rs, i) ==
    IF i > Len(rs) \/ run.kind # "continue" THEN run
    ELSE LET rp == RequestParamsFor(run.request_params, run.cursor)
             out == PageOutcome(rs[i])
         IN  FreshRun([request_params |-> rp,
                       cursor |-> IF out.kind = "raise" THEN run.cursor
                                  ELSE out.next,
                       requests |-> Append(run.requests,
                                      [endpoint |-> endpoint, params |-> rp]),
                       results |-> Collect(run.results, out.items),
                       kind |-> out.kind],
                      rs, i + 1)

LastStatus == statuses[Len(statuses)]

\* the current get has raised or returned and the run is over
GetEnded == http_pc = "done" /\ statuses # <<>>

\* C21: a 401 is terminal.  No request follows it, whatever max_retries is:
\* it is the last response of its get, the get raises AuthenticationError,
\* and the run ends with PaginationError without a further get; a get
\* whose first response is a 401 has made exactly one attempt.
C21_Unauthorized401Terminal ==
    \A k \in 1..Len(statuses) :
        statuses[k] = 401 =>
            /\ k = Len(statuses)
            /\ attempts = k
            /\ http_pc = "done"
            /\ http_error = "AuthenticationError"
            /\ run_error = "PaginationError"

\* a 401 on the second page, with retries configured
C21_Witness ==
    /\ max_retries = MaxRetries
    /\ gets = 2
    /\ statuses = <<401>>
    /\ attempts = 1
    /\ http_error = "AuthenticationError"

\* C22: a 429 or a 5xx is retried at most max_retries times, and when the
\* get ends on one, the caller sees RateLimitError for 429 and HTTPError
\* for the others.
C22_RetriedThenSurfaced ==
    /\ attempts <= max_retries + 1
    /\ GetEnded =>
          /\ LastStatus = 429 => http_error = "RateLimitError"
          /\ LastStatus \in {500, 501, 502, 503, 504} =>
                http_error = "HTTPError"

\* C23: the retry strategy leaves 429 alone: a 429 is the last response of
\* its get, which raises RateLimitError, while 500, 502, 503 and 504 are
\* sent again as long as retries are left.
C23_RateLimitNotRetried ==
    /\ \A k \in 1..Len(statuses) :
          statuses[k] = 429 =>
              /\ k = Len(statuses)
              /\ http_pc = "done"
              /\ http_error = "RateLimitError"
    /\ \A k \in 1..Len(statuses) :
          (statuses[k] \in {500, 502, 503, 504} /\ k <= max_retries) =>
              (k < Len(statuses) \/ http_pc = "sending")

(***************************************************************************)
(* Properties of the client's requests and results.                        *)
(***************************************************************************)
EnterpriseEndpoints ==
    {UserActivityEndpoint, DailyUsageEndpoint, DauCountEndpoint}

\* C24: every request to the user-activity, daily-usage and dau-count
\* endpoints carries the enterprise_id the client was constructed with as a
\* query parameter.
C24_EnterpriseIdOnEveryRequest ==
    requests # <<>> =>
        /\ "enterprise_id" \in AnalyticsClientParams
        /\ \A k \in 1..Len(requests) :
              requests[k].endpoint \in EnterpriseEndpoints =>
                  "enterprise_id" \in DOMAIN requests[k].params

\* the fetch got one page, which holds one record under the endpoint's own
\* key
OneKeyedRecord ==
    /\ op \in {"fetch_user_activity", "fetch_daily_usage",
               "fetch_editor_language_breakdown"}
    /\ pc = "done"
    /\ Len(responses) = 1
    /\ responses[1].transport = "ok"
    /\ responses[1].is_dict
    /\ responses[1].users.tag = "list"
    /\ Len(responses[1].users.items) = 1

\* C25: a response holding one record under users (daily_usage, records)
\* yields a result of length one, the record under that key.
C25_ParsesOwnEnvelope ==
    OneKeyedRecord =>
        /\ returned
        /\ value = responses[1].users.items

\* the fetch raised
FetchRaised ==
    /\ op \in PaginatedOps
    /\ pc = "done"
    /\ error # NoError

\* C28: a fetch is all-or-nothing.  When it raises, on whatever page, the
\* caller receives nothing, whatever pages 1..k-1 and page k itself held;
\* when it returns, the list is the items of every page in order, the last
\* page being the first one without a cursor.
C28_AllOrNothing ==
    /\ FetchRaised => (~returned /\ value = <<>>)
    /\ (op \in PaginatedOps /\ returned) =>
          /\ error = NoError
          /\ value = ItemsOfPages(responses)
          /\ \A k \in 1..(Len(responses) - 1) : LinksNextPage(responses[k])
          /\ ~LinksNextPage(responses[Len(responses)])

\* page 1 held two items and linked to page 2, whose data is a list of one
\* item and whose pagination is not an object
C28_Witness ==
    /\ op = "fetch_user_activity"
    /\ FetchRaised
    /\ Len(responses) = 2
    /\ responses[1].data.items = <<2, 1>>
    /\ responses[2].data = ListField(<<1>>)
    /\ responses[2].pagination = OtherPagination
    /\ error.msg = "Invalid pagination type"
    /\ results = <<2, 1, 1>>
    /\ value = <<>>

(***************************************************************************)
(* Properties of the Report as a whole.                                    *)
(***************************************************************************)
\* C29: the breakdown corresponds to the input one to one and in order: it
\* is as long as the input list, and its i-th record is the transformation
\* of the i-th input record, for every DAU override, engaged or not, equal
\* records and records of one identity included.
C29_BreakdownInOrder ==
    ReportReturned =>
        /\ Len(report.breakdown) = Len(args.user_activity)
        /\ \A i \in Records :
              report.breakdown[i] = TransformUserRecord(args.user_activity[i])
        /\ user_activity_in = args.user_activity

\* an idle record before an engaged one, under an override below the length
C29_Witness ==
    /\ ReportReturned
    /\ args.user_activity = <<RawIdle, RawFull>>
    /\ args.dau_count = [given |-> TRUE, n |-> 1]
    /\ report.breakdown[1].user_email = "idle@example.com"
    /\ report.breakdown[2].user_email = "alice@example.com"

\* the same record twice: two breakdown records of one identity
C29_SameIdentityTwice ==
    /\ ReportReturned
    /\ args.user_activity = <<RawFull, RawFull>>
    /\ Len(report.breakdown) = 2

\* the warning of the clamp was logged
ClampTriggered ==
    \E k \in 1..Len(warnings) :
        warnings[k] = "total_active_users < total_engaged_users"

\* C30: in every Report the code-completion and the chat engaged counts are
\* at most total_engaged_users, which is at most the length of the
\* breakdown; without a DAU override total_active_users is that length and
\* the clamp is not triggered.
C30_CountOrdering ==
    ReportReturned =>
        /\ report.copilot_ide_code_completions.total_engaged_users
              <= report.total_engaged_users
        /\ report.copilot_ide_chat.total_engaged_users
              <= report.total_engaged_users
        /\ report.total_engaged_users <= Len(report.breakdown)
        /\ ~args.dau_count.given =>
              /\ ~ClampTriggered
              /\ report.total_active_users = Len(report.breakdown)

\* no override; a chat-only record and an idle one
C30_Witness ==
    /\ ReportReturned
    /\ ~args.dau_count.given
    /\ args.user_activity = <<RawChatOnly, RawIdle>>
    /\ report.copilot_ide_chat.total_engaged_users = 1
    /\ report.copilot_ide_code_completions.total_engaged_users = 0
    /\ report.total_engaged_users = 1
    /\ report.total_active_users = 2

(***************************************************************************)
(* Properties of run_export.                                               *)
(***************************************************************************)
\* run_export has returned
ExportReturned == export_pc = "done"

\* a valid explicit date range: two YYYY-MM-DD dates, the start not after
\* the end
ValidExplicitRange(a) ==
    /\ ~a.last_28_days
    /\ ValidateDateOk(a.start_date)
    /\ ValidateDateOk(a.end_date)
    /\ ~StrGreater(a.start_date, a.end_date)

\* the token is set and both fetches succeed
HealthyEnv(env) ==
    /\ env.token_set
    /\ env.fetch_user_activity = "ok"
    /\ env.fetch_dau_count \in {"ok", "empty"}

\* s holds a before b
Before(s, a, b) ==
    \E i, j \in 1..Len(s) : i < j /\ s[i] = a /\ s[j] = b

\* C26: with a valid explicit date range, the token set and fetches that
\* succeed, run_export returns 0, having called fetch_user_activity, then
\* fetch_dau_count, then the transformer; it returns 1 only when a step
\* fails.
C26_SuccessPathExitsZero ==
    (ExportReturned /\ ValidExplicitRange(export_args) /\ HealthyEnv(export_env)) =>
        /\ exit_code = 0
        /\ Before(export_calls, "fetch_user_activity", "fetch_dau_count")
        /\ Before(export_calls, "fetch_dau_count", "transform_user_metrics")

(***************************************************************************)
(* Properties of TokenAuth.                                                *)
(***************************************************************************)
\* s is empty or whitespace only
Blank(s) == \A i \in 1..Len(s) : s[i] \in Whitespace

\* what get_token and get_enterprise_id are to return after the calls so far
ExpectedToken == IF saved.live THEN Strip(saved.token) ELSE NoneStr
ExpectedEnterpriseId ==
    IF saved.live THEN Strip(saved.enterprise_id) ELSE NoneStr

\* C27: after any sequence of calls, get_token and get_enterprise_id return
\* the stripped values of the last save_token that succeeded if no
\* clear_credentials followed it, None otherwise, and has_credentials is
\* true exactly in the first case; save_token fails with TokenAuthError
\* exactly for a blank token or enterprise ID, and then the stored
\* credentials stay as they were (the file holds the stripped values of the
\* last successful save that was not cleared, and no credentials otherwise).
C27_CredentialLifeCycle ==
    /\ auth_op.name = "get_token" => auth_value.str = ExpectedToken
    /\ auth_op.name = "get_enterprise_id" =>
          auth_value.str = ExpectedEnterpriseId
    /\ auth_op.name = "has_credentials" => auth_value.bool = saved.live
    /\ auth_op.name = "save_token" =>
          (auth_error # "" <=>
              (Blank(auth_op.token) \/ Blank(auth_op.enterprise_id)))
    /\ saved.live =>
          /\ ~Blank(saved.token)
          /\ ~Blank(saved.enterprise_id)
          /\ credentials_file.exists
          /\ credentials_file.is_dict
          /\ credentials_file.dict["augment_api_token"] = Strip(saved.token)
          /\ credentials_file.dict["enterprise_id"] = Strip(saved.enterprise_id)
    /\ ~saved.live => credentials_file \in InitialFiles

\* a padded token and a padded enterprise ID were saved last, and get_token
\* returns the stripped token
C27_Witness ==
    /\ auth_op.name = "get_token"
    /\ saved = [live |-> TRUE, token |-> TokPadded, enterprise_id |-> EntPadded]
    /\ auth_value.str = Tok
    /\ credentials_file.dict["enterprise_id"] = Ent

=============================================================================
